---- MODULE Spec2Model ----
(***************************************************************************)
(* Model of the Athena chat-first automation backend (src/chat_api.py):    *)
(* execute_rule, stream_execution (event_generator, process_node,          *)
(* sequential_runner, the consumer loop and the finalize step),            *)
(* delete_session, and the helpers of src/chat_engine.py they call.       *)
(*                                                                         *)
(* Scheduling follows asyncio: a coroutine runs without interruption up to *)
(* its next suspending await.  queue.put on the unbounded asyncio.Queue    *)
(* never suspends, so a worker's atomic blocks end at asyncssh.connect,    *)
(* conn.run, run_in_executor and the close of the connection; the consumer *)
(* suspends in wait_for(queue.get()) and at every yield.                   *)
(***************************************************************************)
EXTENDS Integers, Sequences, FiniteSets, TLC

\* ---------------------------------------------------------------- bounds
MaxNodes == 2        \* nodes in a rule's nodes_json
MaxCmds == 2         \* commands in a rule's commands_json
MaxWork == 4         \* runs explored: Work(rule) * (stream requests) <= MaxWork
MaxReq == 2          \* stream requests (GET /execute/{id}/stream) issued
MaxExec == 1         \* POST /execute/{rule_id} requests made

RuleIds == {1}
SessionIds == {1}
NodeIdx == 1..MaxNodes
NoRule == [exists |-> FALSE]

VARIABLES
    rules,        \* table automation_rule: rule id -> row (or NoRule)
    sessions,     \* table chat_session: set of session ids
    executions,   \* table rule_execution: sequence of rows, id = index
    req,          \* the current (or last) stream request: locals of event_generator and its tasks
    requests,     \* stream requests the client has yet to issue
    now,          \* logical clock read by datetime.utcnow() at finalize
    calls,        \* executor.py: what the SSHExecutor.run_command calls made so far returned
    jobs,         \* scheduler.py: the jobs held by the APScheduler job store
    lastCall,     \* scheduler.py: the last schedule / unschedule call and what it returned
    messages,     \* table chat_message: set of rows
    resp,         \* the answer to the last DELETE /sessions/{id} request made by a client
    answer,       \* the answer to the last POST /execute/{rule_id} request made by a client
    analyses,     \* chat_engine.py: what the analyze_output_with_llm calls made so far returned
    chatApi,      \* chat_api.py: nodes_json of the rules send_message stored, and the last response body
    run,          \* executor.py: the runbook execution in progress, row and locals of execute_runbook
    runbooks,     \* api.py: table runbook (rows: id -> row), n requests made to the runbook API
    resolved,     \* chat_engine.py: what the resolve_node calls made so far returned
    report        \* chat_api.py: the timeline of a rule's latest execution, the rows get_report made

vars == <<rules, sessions, executions, req, requests, now, calls, jobs, lastCall, messages, resp,
          answer, analyses, chatApi, run, runbooks, resolved, report>>

chatVars == <<rules, sessions, executions, req, requests, now, messages>>
execVars == <<calls>>
schedVars == <<jobs, lastCall>>
clientVars == <<resp, answer>>
engineVars == <<analyses>>
apiVars == <<chatApi, run, runbooks, resolved, report>>
coreVars == <<chatVars, execVars, schedVars, clientVars, engineVars>>
notChatApi == <<coreVars, run, runbooks, resolved, report>>
notRun == <<coreVars, chatApi, runbooks, resolved, report>>
notResolve == <<coreVars, chatApi, run, runbooks, report>>
notReport == <<coreVars, chatApi, run, runbooks, resolved>>
notRunbookApi ==
    <<chatVars, execVars, lastCall, clientVars, engineVars, chatApi, run, resolved, report>>

\* The variables that the streaming backend, the executor, the scheduler
\* and the analyzer called on its own, each, do not touch.
notChat == <<execVars, schedVars, clientVars, engineVars, apiVars>>
notExec == <<chatVars, schedVars, clientVars, engineVars, apiVars>>
notSched == <<chatVars, execVars, clientVars, engineVars, apiVars>>
notEngine == <<chatVars, execVars, schedVars, clientVars, apiVars>>

\* No rule stored by send_message and no request of the chat API answered
\* yet.  n counts the requests.
NoChatApi == [n |-> 0, items |-> 0, nodes_json |-> <<>>, op |-> "none", body |-> <<>>]

\* No runbook execution created yet.  n counts the executions, clock is the
\* time datetime.utcnow() last returned.
NoRunbookRun ==
    [n |-> 0, pc |-> "idle", status |-> "none", completed_at |-> 0, servers |-> {},
     commands |-> <<>>, k |-> 0, results |-> <<>>, all_success |-> TRUE,
     any_success |-> FALSE, clock |-> 0]

\* No runbook, no request made to the runbook API.
NoRunbooks == [n |-> 0, rows |-> <<>>]

\* No rule to report on: n nodes, m commands, pos runs of a command on a
\* node in the timeline, met the runs that met the condition; asked tells
\* whether get_report has been called.
NoReport ==
    [n |-> 0, m |-> 0, pos |-> 0, timeline |-> <<>>, met |-> {}, asked |-> FALSE, rows |-> {}]

\* The state of the endpoints that are not exercised.
ApiIdle ==
    /\ chatApi = NoChatApi
    /\ run = NoRunbookRun
    /\ runbooks = NoRunbooks
    /\ resolved = <<>>
    /\ report = NoReport

\* No DELETE /sessions/{id} request answered yet.  n counts the requests.
NoResponse == [n |-> 0, session_id |-> 0, status |-> 0]

\* No POST /execute/{rule_id} request answered yet.  n counts the requests;
\* execution_id is the id in the body of a 200 answer (0 in a 404 answer).
NoAnswer == [n |-> 0, rule_id |-> 0, status |-> 0, execution_id |-> 0]

\* No scheduler call made yet.  n counts the calls; before is the call made
\* before the last one.
NoCall ==
    [n |-> 0, op |-> "none", id |-> 0, raised |-> FALSE, ret |-> FALSE,
     before |-> [op |-> "none", id |-> 0, ret |-> FALSE]]

\* ------------------------------------------------------------ chat_models
RuleStatus == {"created", "executing", "completed", "failed"}
IncidentSeverity == {"info", "warning", "critical"}

\* ------------------------------------------------------------ chat_engine
\* generate_execution_narrative: the text depends on the step and, for
\* connecting / connected only, on the node name; every other narrative
\* (including "failed") ignores details['node'].  node 0 = no node named.
generate_execution_narrative(step, node) ==
    [text |-> step,
     node |-> IF step \in {"connecting", "connected"} THEN node ELSE 0]

\* What the LLM call inside analyze_output_with_llm can produce.
LLMReplies ==
    {[kind |-> "raise", met |-> FALSE, severity |-> "info"],      \* API call raises
     [kind |-> "text", met |-> FALSE, severity |-> "info"],       \* content is not JSON
     [kind |-> "nonobject", met |-> FALSE, severity |-> "info"],  \* JSON, but a list / string / null
     [kind |-> "object", met |-> FALSE, severity |-> "info"],
     [kind |-> "object", met |-> TRUE, severity |-> "warning"],
     [kind |-> "object", met |-> TRUE, severity |-> "critical"]}

\* analyze_output_with_llm: json.loads(content) is returned as is; any
\* exception (API error, JSONDecodeError) yields the degraded record.
analyze_output_with_llm(reply) ==
    IF reply.kind \in {"raise", "text"}
    THEN [isdict |-> TRUE, condition_met |-> FALSE, summary |-> "Could not analyze", severity |-> "info"]
    ELSE IF reply.kind = "object"
    THEN [isdict |-> TRUE, condition_met |-> reply.met, summary |-> "summary", severity |-> reply.severity]
    ELSE [isdict |-> FALSE, condition_met |-> FALSE, summary |-> "", severity |-> "none"]

\* ----------------------------------------------------------------- events
\* An event as put on the queue / yielded.  type, message, status, node and
\* severity are the payload; src and cmd record the worker (node index) and
\* the command index that produced it, for stating properties only.
\* details is the "details" key, which only incident events have.
NoDetails == [isdict |-> FALSE, condition_met |-> FALSE, summary |-> "", severity |-> "none"]
Event(type, step, status, node, severity, src, cmd) ==
    [type |-> type, message |-> generate_execution_narrative(step, src),
     status |-> status, node |-> node, severity |-> severity, details |-> NoDetails,
     src |-> src, cmd |-> cmd]

StepEvent(step, status, src, cmd) == Event("step", step, status, 0, "none", src, cmd)
ErrorEvent(src, cmd) == Event("error", "failed", "none", 0, "none", src, cmd)
IncidentEvent(analysis, src, cmd) ==
    [Event("incident", "incident_raised", "none", src, analysis.severity, src, cmd)
        EXCEPT !.details = analysis]
CompleteEvent == Event("complete", "completed", "none", 0, "none", 0, 0)
\* {'error': 'Execution not found'} / {'error': 'Rule not found'}: no type key
NotFoundEvent(what) == Event("untyped", what, "none", 0, "none", 0, 0)

\* The kind of an event: the narrative step of a step event, else its type.
Kind(ev) == IF ev.type = "step" THEN ev.message.text ELSE ev.type
Kinds(seq) == [k \in DOMAIN seq |-> Kind(seq[k])]

\* The events of seq that the worker of node i produced.
EventsOf(seq, i) == SelectSeq(seq, LAMBDA ev : ev.src = i)

\* ------------------------------------------------------- rows and locals
\* commands_config as event_generator computes it: commands_json, or the
\* single legacy command when that list is empty and rule.command is set.
CommandsConfig(rule) ==
    IF rule.commands = 0 /\ rule.command THEN 1 ELSE rule.commands

\* Size of a plan, for bounding the plans explored: nodes * (commands + 1),
\* a rule that falls back on the legacy command counting double.
Work(rule) ==
    rule.nodes * (CommandsConfig(rule) + 1)
        * (IF rule.commands = 0 /\ rule.command THEN 2 ELSE 1)

\* Rows of automation_rule the model starts from.  command is the legacy
\* column: "DEPRECATED" for rules made by send_message, NULL allowed for
\* older rows; it only matters when commands_json is empty.
RuleRows ==
    {r \in [exists : {TRUE}, session_id : SessionIds, nodes : 0..MaxNodes,
            commands : 0..MaxCmds, command : BOOLEAN,
            execution_mode : {"parallel", "sequential"}, last_executed_at : {0}] :
        /\ (r.commands > 0 => r.command)
        /\ Work(r) <= MaxWork}

\* One worker (process_node invocation) of a stream request.
\*   pc    where the coroutine is suspended
\*   cmd   index of the command being run / analyzed (0 before the loop)
\*   conn  the asyncssh connection is open
\*   exc   an exception is propagating out of "async with" (error event due)
\*   cause why the worker failed ("none" if it did not)
\*   exit  result.exit_status of the last command that returned, as long as
\*         the worker is in the loop over the commands (else 0)
IdleWorker ==
    [pc |-> "none", cmd |-> 0, conn |-> FALSE, exc |-> FALSE, cause |-> "none", exit |-> 0]

\* What is remembered of the previous finished run, for comparing two runs:
\* its plan, the kinds of the events it yielded, overall and per node, and
\* the status it wrote.
NoRun ==
    [done |-> FALSE, n |-> 0, m |-> 0, mode |-> "none", kinds |-> <<>>,
     of |-> [i \in NodeIdx |-> <<>>], status |-> "none"]

\* The locals of one event_generator invocation (prev is not one of them:
\* it is the record of the run before, kept for stating properties only).
IdleRequest ==
    [pc |-> "idle", eid |-> 0, started |-> FALSE, n |-> 0, m |-> 0, mode |-> "none",
     queue |-> <<>>, put |-> <<>>, timeline |-> <<>>, yielded |-> <<>>,
     w |-> [i \in NodeIdx |-> IdleWorker], runner |-> "none", prev |-> NoRun]

\* Rows of chat_message: rule_id 0 stands for NULL.  send_message saves the
\* user's message and the assistant's rule card of the rule it created.
Message(id, session_id, rule_id) == [id |-> id, session_id |-> session_id, rule_id |-> rule_id]
InitialMessages == {Message(1, 1, 0), Message(2, 1, 1)}

\* The database holds one session with one rule and no execution yet; no
\* stream request has been made.  The client will issue up to MaxReq stream
\* requests, one after the other, within the budget MaxWork.
Init ==
    /\ rules \in [RuleIds -> RuleRows]
    /\ sessions = SessionIds
    /\ executions = <<>>
    /\ req = IdleRequest
    /\ requests \in {k \in 1..MaxReq :
            \A rid \in RuleIds : k * Work(rules[rid]) <= MaxWork}
    /\ now = 0
    /\ calls = <<>>
    /\ jobs = {}
    /\ lastCall = NoCall
    /\ messages = InitialMessages
    /\ resp = NoResponse
    /\ answer = NoAnswer
    /\ analyses = <<>>
    /\ ApiIdle

\* ------------------------------------------------------------ process_node
\* Mutant of Put: the queue hands out the newest event first.
Put_Front(q, evs) == [q EXCEPT !.queue = evs \o @, !.put = @ \o evs]

\* queue.put (never suspends on an unbounded queue); put is the history of
\* everything ever put on this request's queue.
Put(q, evs) == [q EXCEPT !.queue = @ \o evs, !.put = @ \o evs]

\* process_node from its entry to the await of asyncssh.connect.
\* get_known_nodes() is called before the try block: if it raises, the
\* exception leaves process_node (and sequential_runner, when that is the
\* caller) and the task ends with it.
BeginNode(q, i, lookup) ==
    IF lookup = "raise"
    THEN [q EXCEPT !.w[i].pc = "crashed", !.w[i].cause = "lookup",
                   !.runner = IF q.mode = "parallel" THEN @ ELSE "crashed"]
    ELSE Put([q EXCEPT !.w[i].pc = "connecting"],
             <<StepEvent("connecting", "none", i, 0)>>)

\* process_node returns (normally or after its except clause).  In
\* sequential mode sequential_runner goes on to the next node at once.
EndNode(q, i, lookup) ==
    LET q1 == [q EXCEPT !.w[i].pc = "done"] IN
    IF q.mode = "parallel" THEN q1
    ELSE IF i < q.n THEN BeginNode(q1, i + 1, lookup)
    ELSE [q1 EXCEPT !.runner = "done"]

\* Top of "for cmd_config in commands": run command c, or leave the loop
\* and the "async with" block when the list is exhausted.
NextCommand(q, i, c) ==
    IF c <= q.m
    THEN Put([q EXCEPT !.w[i].pc = "running", !.w[i].cmd = c],
             <<StepEvent("executing", "none", i, c)>>)
    ELSE [q EXCEPT !.w[i].pc = "closing", !.w[i].exit = 0]

\* Mutant of AfterConnect: after the error event the worker connects again.
AfterConnect_Retries(q, i, outcome, lookup) ==
    IF outcome = "raise"
    THEN Put([q EXCEPT !.w[i].cause = "connect"], <<ErrorEvent(i, 0)>>)
    ELSE NextCommand(Put([q EXCEPT !.w[i].conn = TRUE],
                         <<StepEvent("connected", "success", i, 0)>>), i, 1)

\* asyncssh.connect returned or raised.
AfterConnect(q, i, outcome, lookup) ==
    IF outcome = "raise"
    THEN EndNode(Put([q EXCEPT !.w[i].cause = "connect"], <<ErrorEvent(i, 0)>>), i, lookup)
    ELSE NextCommand(Put([q EXCEPT !.w[i].conn = TRUE],
                         <<StepEvent("connected", "success", i, 0)>>), i, 1)

\* Mutant of AfterRun: a non-zero exit status raises, as with check=True.
AfterRun_ChecksExit(q, i, outcome) ==
    IF outcome \in {"raise", "nonzero"}
    THEN [q EXCEPT !.w[i].pc = "closing", !.w[i].exc = TRUE, !.w[i].cause = "run",
                   !.w[i].exit = IF outcome = "nonzero" THEN 1 ELSE 0]
    ELSE IF outcome = "hang"
    THEN [q EXCEPT !.w[i].pc = "hung", !.w[i].cause = "hang", !.w[i].exit = 0]
    ELSE Put([q EXCEPT !.w[i].pc = "analyzing", !.w[i].exit = 0],
             <<StepEvent("output_received", "success", i, q.w[i].cmd),
               StepEvent("analyzing", "none", i, q.w[i].cmd)>>)

\* conn.run(cmd_str, check=False) returned (with exit status 0, "ok", or
\* another one, "nonzero"), raised, or never returns (no timeout is passed).
\* With check=False the exit status is not looked at: only result.stdout
\* is used.
AfterRun(q, i, outcome) ==
    IF outcome = "raise"
    THEN [q EXCEPT !.w[i].pc = "closing", !.w[i].exc = TRUE, !.w[i].cause = "run",
                   !.w[i].exit = 0]
    ELSE IF outcome = "hang"
    THEN [q EXCEPT !.w[i].pc = "hung", !.w[i].cause = "hang", !.w[i].exit = 0]
    ELSE Put([q EXCEPT !.w[i].pc = "analyzing",
                       !.w[i].exit = IF outcome = "nonzero" THEN 1 ELSE 0],
             <<StepEvent("output_received", "success", i, q.w[i].cmd),
               StepEvent("analyzing", "none", i, q.w[i].cmd)>>)

\* Mutant of AfterAnalysis: a met condition raises no incident event.
AfterAnalysis_NoIncident(q, i, reply) ==
    LET analysis == analyze_output_with_llm(reply)
        c == q.w[i].cmd
    IN  IF ~analysis.isdict
        THEN [q EXCEPT !.w[i].pc = "closing", !.w[i].exc = TRUE, !.w[i].cause = "analysis",
                       !.w[i].exit = 0]
        ELSE IF analysis.condition_met
        THEN NextCommand(Put(q, <<StepEvent("condition_met", "warning", i, c)>>), i, c + 1)
        ELSE NextCommand(Put(q, <<StepEvent("condition_not_met", "success", i, c)>>), i, c + 1)

\* run_in_executor(analyze_output_with_llm) returned: step 6 and the next
\* loop iteration.  analysis.get on a value that is not a dict raises
\* AttributeError inside the try block.
AfterAnalysis(q, i, reply) ==
    LET analysis == analyze_output_with_llm(reply)
        c == q.w[i].cmd
    IN  IF ~analysis.isdict
        THEN [q EXCEPT !.w[i].pc = "closing", !.w[i].exc = TRUE, !.w[i].cause = "analysis",
                       !.w[i].exit = 0]
        ELSE IF analysis.condition_met
        THEN NextCommand(Put(q, <<StepEvent("condition_met", "warning", i, c),
                                  IncidentEvent(analysis, i, c)>>), i, c + 1)
        ELSE NextCommand(Put(q, <<StepEvent("condition_not_met", "success", i, c)>>), i, c + 1)

\* Mutant of AfterClose: a connection left by an exception stays open.
AfterClose_LeaksOnError(q, i, lookup) ==
    LET q1 == [q EXCEPT !.w[i].conn = ~q.w[i].exc, !.w[i].exc = FALSE] IN
    EndNode(IF q.w[i].exc THEN Put(q1, <<ErrorEvent(i, q.w[i].cmd)>>) ELSE q1, i, lookup)

\* Mutant of AfterClose: the except clause puts no error event.
AfterClose_NoErrorEvent(q, i, lookup) ==
    EndNode([q EXCEPT !.w[i].conn = FALSE, !.w[i].exc = FALSE], i, lookup)

\* The connection's __aexit__ finished: the except clause runs if an
\* exception was propagating, then process_node returns.
AfterClose(q, i, lookup) ==
    LET q1 == [q EXCEPT !.w[i].conn = FALSE, !.w[i].exc = FALSE] IN
    EndNode(IF q.w[i].exc THEN Put(q1, <<ErrorEvent(i, q.w[i].cmd)>>) ELSE q1, i, lookup)

\* ------------------------------------------------------------ execute_rule
\* Mutant of execute_rule: the execution record is added and committed
\* before the rule is looked up.
execute_rule_AddsFirst(rs, execs, rule_id) ==
    LET added == Append(execs, [rule_id |-> rule_id, status |-> "executing",
                                timeline |-> <<>>, completed_at |-> 0])
    IN  IF rule_id \in DOMAIN rs /\ rs[rule_id].exists
        THEN [status |-> 200, executions |-> added, execution_id |-> Len(added)]
        ELSE [status |-> 404, executions |-> added, execution_id |-> 0]

\* execute_rule on the tables automation_rule (rs) and rule_execution
\* (execs): HTTPException(404) when session.get finds no rule, else a new
\* row with status executing and timeline "[]" is committed and its id
\* returned.  Nothing else is done: no task is created, no node contacted.
execute_rule(rs, execs, rule_id) ==
    IF rule_id \in DOMAIN rs /\ rs[rule_id].exists
    THEN [status |-> 200,
          executions |-> Append(execs, [rule_id |-> rule_id, status |-> "executing",
                                        timeline |-> <<>>, completed_at |-> 0]),
          execution_id |-> Len(execs) + 1]
    ELSE [status |-> 404, executions |-> execs, execution_id |-> 0]

\* POST /execute/{rule_id} and its answer; at most MaxExec such requests
\* are made.
ExecuteRule(rid) ==
    /\ answer.n < MaxExec
    /\ LET out == execute_rule(rules, executions, rid) IN
       /\ executions' = out.executions
       /\ answer' = [n |-> answer.n + 1, rule_id |-> rid, status |-> out.status,
                     execution_id |-> out.execution_id]
    /\ UNCHANGED <<rules, sessions, req, requests, now, messages, execVars, schedVars, resp,
                   engineVars, apiVars>>

\* ---------------------------------------------------------- delete_session
\* The tables delete_session works on: the three it deletes from, and
\* rule_execution, whose rows reference automation_rule.
Tables(ss, ms, rs, es) == [sessions |-> ss, messages |-> ms, rules |-> rs, executions |-> es]

\* delete_session: the messages and the rules of the session are marked
\* for deletion.  Flushing the deletion of a rule first detaches the rows
\* of the rule's "executions" relationship (no delete cascade is declared),
\* that is, sets rule_execution.rule_id to NULL, which the NOT NULL column
\* rejects: the request ends with IntegrityError (500) and nothing is
\* deleted.  Otherwise, if the session exists it is deleted too and
\* everything is committed (200), else HTTPException(404) is raised and the
\* database session is closed without a commit, which discards the
\* deletions.
delete_session(db, session_id) ==
    LET mine == {rid \in DOMAIN db.rules :
                    db.rules[rid].exists /\ db.rules[rid].session_id = session_id}
        deleted ==
            Tables(db.sessions \ {session_id},
                   {m \in db.messages : m.session_id # session_id},
                   [rid \in DOMAIN db.rules |-> IF rid \in mine THEN NoRule ELSE db.rules[rid]],
                   db.executions)
    IN  IF \E e \in DOMAIN db.executions : db.executions[e].rule_id \in mine
        THEN [status |-> 500, db |-> db]
        ELSE IF session_id \in db.sessions
        THEN [status |-> 200, db |-> deleted]
        ELSE [status |-> 404, db |-> db]

\* get_session_messages: the ids of the messages listed for a session.
get_session_messages(db, session_id) ==
    {m.id : m \in {x \in db.messages : x.session_id = session_id}}

\* DELETE /sessions/{id} for a session that exists, while executions are
\* created and streamed.  (For a missing session, and for a session with a
\* rule that has been executed, the request changes nothing.)
DeleteSession(s) ==
    /\ s \in sessions
    /\ LET out == delete_session(Tables(sessions, messages, rules, executions), s) IN
       /\ sessions' = out.db.sessions
       /\ messages' = out.db.messages
       /\ rules' = out.db.rules
    /\ UNCHANGED <<executions, req, requests, now, notChat>>

\* ------------------------------------------------- stream_execution: tasks
\* len(tasks): one task per node in parallel mode, else the one
\* sequential_runner task.
NumTasks(q) == IF q.mode = "parallel" THEN q.n ELSE 1

\* Mutant of TasksDone: a task that ended with an exception is not counted.
TasksDone_OnlyReturned(q) ==
    IF q.mode = "parallel"
    THEN Cardinality({i \in 1..q.n : q.w[i].pc = "done"})
    ELSE IF q.runner = "done" THEN 1 ELSE 0

\* Mutant of TasksDone: the loop is left as soon as one task is done.
TasksDone_AnyDone(q) ==
    IF q.mode = "parallel"
    THEN IF \E i \in 1..q.n : q.w[i].pc \in {"done", "crashed"} THEN q.n ELSE 0
    ELSE IF q.runner \in {"done", "crashed"} THEN 1 ELSE 0

\* sum(1 for t in tasks if t.done())
TasksDone(q) ==
    IF q.mode = "parallel"
    THEN Cardinality({i \in 1..q.n : q.w[i].pc \in {"done", "crashed"}})
    ELSE IF q.runner \in {"done", "crashed"} THEN 1 ELSE 0

\* Mutant of Finalize: the generator goes on after yielding complete.
Finalize_GoesOn(q) ==
    /\ executions' = [executions EXCEPT ![q.eid] =
            [@ EXCEPT !.status = "completed", !.completed_at = now + 1,
                      !.timeline = q.timeline]]
    /\ now' = now + 1
    /\ req' = [q EXCEPT !.pc = "drain", !.yielded = Append(@, CompleteEvent)]
    /\ UNCHANGED <<rules, sessions>>

\* Mutant of Finalize: complete is yielded before the record is updated and
\* committed.
Finalize_YieldsFirst(q) ==
    /\ req' = [q EXCEPT !.pc = "done", !.yielded = Append(@, CompleteEvent)]
    /\ UNCHANGED <<rules, sessions, executions, now>>

\* The finalize block, from "execution.status = RuleStatus.COMPLETED" to the
\* yield of the complete event, for a generator whose locals are q.  The
\* commit updates the rows of the execution and of the rule; if the rule's
\* row has been deleted meanwhile the UPDATE matches no row, the commit
\* raises and the generator ends without the complete event.
Finalize(q) ==
    LET rid == executions[q.eid].rule_id IN
    IF rules[rid].exists
    THEN /\ executions' = [executions EXCEPT ![q.eid] =
                [@ EXCEPT !.status = "completed", !.completed_at = now + 1,
                          !.timeline = q.timeline]]
         /\ rules' = [rules EXCEPT ![rid].last_executed_at = now + 1]
         /\ now' = now + 1
         /\ req' = [q EXCEPT !.pc = "done", !.yielded = Append(@, CompleteEvent)]
         /\ UNCHANGED sessions
    ELSE /\ req' = [q EXCEPT !.pc = "crashed"]
         /\ UNCHANGED <<rules, sessions, executions, now>>

\* The generator of the last request has ended and none of its tasks is
\* running any more.
Ended(q) ==
    /\ q.pc \in {"idle", "done", "crashed", "aborted"}
    /\ \A i \in NodeIdx : q.w[i].pc \in {"none", "pending", "done", "crashed", "hung"}

\* The record of run q for the run that follows it.
PrevRun(q) ==
    IF q.started /\ q.pc = "done"
    THEN [done |-> TRUE, n |-> q.n, m |-> q.m, mode |-> q.mode, kinds |-> Kinds(q.yielded),
          of |-> [i \in NodeIdx |-> Kinds(EventsOf(q.yielded, i))],
          status |-> executions[q.eid].status]
    ELSE NoRun

\* The first step of every task of tasks: the event loop runs the tasks it
\* was handed by create_task in creation order, each up to its first
\* suspension (the await of asyncssh.connect), before anything else that
\* becomes ready later.  lookups[i] is the outcome of get_known_nodes() in
\* the worker of node i.
RECURSIVE StartWorkers(_, _, _)
StartWorkers(q, i, lookups) ==
    IF i > q.n THEN q
    ELSE StartWorkers(BeginNode(q, i, lookups[i]), i + 1, lookups)

\* Mutant of StartTasks: one task per node in sequential mode too.
StartTasks_AllAtOnce(q, lookups) ==
    StartWorkers([q EXCEPT !.runner = IF q.mode = "parallel" THEN @ ELSE "active"], 1, lookups)

StartTasks(q, lookups) ==
    IF q.mode = "parallel" THEN StartWorkers(q, 1, lookups)
    ELSE IF q.n = 0 THEN [q EXCEPT !.runner = "done"]
    ELSE BeginNode([q EXCEPT !.runner = "active"], 1, lookups[1])

\* GET /execute/{id}/stream, event_generator up to its first suspension in
\* wait_for: the two not-found exits, or the plan is parsed, the tasks are
\* created and take their first step.  With no task to wait for both loops
\* are skipped and the run is finalized in the same block.
StreamOpen(e, lookups) ==
    /\ requests > 0
    /\ Ended(req)
    /\ requests' = requests - 1
    /\ UNCHANGED <<messages, notChat>>
    /\ IF e \notin DOMAIN executions
       THEN /\ req' = [IdleRequest EXCEPT !.pc = "done", !.eid = e,
                          !.yielded = <<NotFoundEvent("Execution not found")>>]
            /\ UNCHANGED <<rules, sessions, executions, now>>
       ELSE IF ~rules[executions[e].rule_id].exists
       THEN /\ req' = [IdleRequest EXCEPT !.pc = "done", !.eid = e,
                          !.yielded = <<NotFoundEvent("Rule not found")>>]
            /\ UNCHANGED <<rules, sessions, executions, now>>
       ELSE LET rule == rules[executions[e].rule_id]
                q == [IdleRequest EXCEPT
                        !.pc = "poll", !.eid = e, !.started = TRUE, !.prev = PrevRun(req),
                        !.n = rule.nodes, !.m = CommandsConfig(rule),
                        !.mode = IF rule.execution_mode = "parallel" THEN "parallel" ELSE "sequential",
                        !.w = [i \in NodeIdx |->
                                 IF i <= rule.nodes THEN [IdleWorker EXCEPT !.pc = "pending"]
                                 ELSE IdleWorker],
                        !.runner = IF rule.execution_mode = "parallel" THEN "none" ELSE "pending"]
            IN  IF NumTasks(q) = 0
                THEN Finalize(q)
                ELSE /\ req' = StartTasks(q, lookups)
                     /\ UNCHANGED <<rules, sessions, executions, now>>

ConnectReturns(i, outcome, lookup) ==
    /\ req.w[i].pc = "connecting"
    /\ req' = AfterConnect(req, i, outcome, lookup)
    /\ UNCHANGED <<rules, sessions, executions, requests, now, messages, notChat>>

RunReturns(i, outcome) ==
    /\ req.w[i].pc = "running"
    /\ req' = AfterRun(req, i, outcome)
    /\ UNCHANGED <<rules, sessions, executions, requests, now, messages, notChat>>

AnalysisReturns(i, reply) ==
    /\ req.w[i].pc = "analyzing"
    /\ req' = AfterAnalysis(req, i, reply)
    /\ UNCHANGED <<rules, sessions, executions, requests, now, messages, notChat>>

CloseReturns(i, lookup) ==
    /\ req.w[i].pc = "closing"
    /\ req' = AfterClose(req, i, lookup)
    /\ UNCHANGED <<rules, sessions, executions, requests, now, messages, notChat>>

\* --------------------------------------------- stream_execution: consumer
\* wait_for(queue.get()) delivers an event: step events go to the timeline,
\* every event is yielded; finished_tasks is not recounted, the loop goes on.
ConsumeEvent ==
    /\ req.pc = "poll"
    /\ req.queue # <<>>
    /\ LET event == Head(req.queue) IN
       req' = [req EXCEPT !.queue = Tail(@),
                          !.timeline = IF event.type = "step" THEN Append(@, event) ELSE @,
                          !.yielded = Append(@, event)]
    /\ UNCHANGED <<rules, sessions, executions, requests, now, messages, notChat>>

\* The 0.5 s timeout fires on an empty queue; wait_for cancels the get and
\* waits for the cancellation, during which other tasks may run.
PollTimeout ==
    /\ req.pc = "poll"
    /\ req.queue = <<>>
    /\ req' = [req EXCEPT !.pc = "cancel"]
    /\ UNCHANGED <<rules, sessions, executions, requests, now, messages, notChat>>

\* except asyncio.TimeoutError: finished_tasks is recounted and the loop
\* condition tested.  finished_tasks is read nowhere else, so it is the
\* local "done" of this step; pc = "poll" stands for finished_tasks <
\* len(tasks).
TimeoutHandle ==
    /\ req.pc = "cancel"
    /\ LET done == TasksDone(req) IN
       req' = [req EXCEPT !.pc = IF done < NumTasks(req) THEN "poll" ELSE "drain"]
    /\ UNCHANGED <<rules, sessions, executions, requests, now, messages, notChat>>

\* "while not queue.empty()": every remaining event goes to the timeline
\* and is yielded.
DrainEvent ==
    /\ req.pc = "drain"
    /\ req.queue # <<>>
    /\ LET event == Head(req.queue) IN
       req' = [req EXCEPT !.queue = Tail(@),
                          !.timeline = Append(@, event),
                          !.yielded = Append(@, event)]
    /\ UNCHANGED <<rules, sessions, executions, requests, now, messages, notChat>>

FinalizeRun ==
    /\ req.pc = "drain"
    /\ req.queue = <<>>
    /\ Finalize(req)
    /\ UNCHANGED <<requests, messages, notChat>>

\* The client disconnects: the generator is cancelled / closed where it is
\* suspended, the "with" block closes the DB session without a commit.
\* Nothing cancels the tasks, which keep the queue alive; nothing reads
\* timeline any more.
Disconnect ==
    /\ req.pc \in {"poll", "cancel", "drain"}
    /\ req' = [req EXCEPT !.pc = "aborted"]
    /\ UNCHANGED <<rules, sessions, executions, requests, now, messages, notChat>>

\* ------------------------------------------------------------------- Next
Lookups == {"ok", "raise"}
ConnectOutcomes == {"ok", "raise"}
RunOutcomes == {"ok", "nonzero", "raise", "hang"}

Next ==
    \/ \E rid \in RuleIds : ExecuteRule(rid)
    \/ \E s \in SessionIds : DeleteSession(s)
    \/ \E e \in 1..MaxExec, ls \in [NodeIdx -> Lookups] : StreamOpen(e, ls)
    \/ \E i \in NodeIdx, o \in ConnectOutcomes, l \in Lookups : ConnectReturns(i, o, l)
    \/ \E i \in NodeIdx, o \in RunOutcomes : RunReturns(i, o)
    \/ \E i \in NodeIdx, reply \in LLMReplies : AnalysisReturns(i, reply)
    \/ \E i \in NodeIdx, l \in Lookups : CloseReturns(i, l)
    \/ ConsumeEvent
    \/ PollTimeout
    \/ TimeoutHandle
    \/ DrainEvent
    \/ FinalizeRun
    \/ Disconnect

Spec == Init /\ [][Next]_vars

\* A step of the consumer (event_generator after the tasks were created):
\* at most one of these is enabled at a time.
ConsumerStep ==
    \/ ConsumeEvent
    \/ PollTimeout
    \/ TimeoutHandle
    \/ DrainEvent
    \/ FinalizeRun

\* The call that the worker of node i awaits returns or raises.
CallReturns(i) ==
    \/ \E o \in ConnectOutcomes, l \in Lookups : ConnectReturns(i, o, l)
    \/ \E o \in RunOutcomes \ {"hang"} : RunReturns(i, o)
    \/ \E reply \in LLMReplies : AnalysisReturns(i, reply)
    \/ \E l \in Lookups : CloseReturns(i, l)

\* What the event loop and the remote ends guarantee.  The consumer is run
\* whenever it is ready (a delivered event, the 0.5 s timeout, the end of the
\* cancellation) as long as the client reads the stream; and every connect,
\* command, analyzer call and connection close that is awaited eventually
\* returns or raises, unless the command is one that never returns.
Fairness ==
    /\ WF_vars(ConsumerStep)
    /\ \A i \in NodeIdx : WF_vars(CallReturns(i))

\* The steps of a system whose clients read every stream to its end.
LiveNext ==
    \/ \E rid \in RuleIds : ExecuteRule(rid)
    \/ \E s \in SessionIds : DeleteSession(s)
    \/ \E e \in 1..MaxExec, ls \in [NodeIdx -> Lookups] : StreamOpen(e, ls)
    \/ \E i \in NodeIdx, o \in ConnectOutcomes, l \in Lookups : ConnectReturns(i, o, l)
    \/ \E i \in NodeIdx, o \in RunOutcomes : RunReturns(i, o)
    \/ \E i \in NodeIdx, reply \in LLMReplies : AnalysisReturns(i, reply)
    \/ \E i \in NodeIdx, l \in Lookups : CloseReturns(i, l)
    \/ ConsumerStep

\* One stream request is made.
LiveInit == Init /\ requests = 1

LiveSpec == LiveInit /\ [][LiveNext]_vars /\ Fairness

\* ============================================================ executor.py
\* SSHExecutor.run_command, as a function of what its environment does
\* during the call.
MaxCalls == 2                \* run_command calls made

DefaultTimeout == 300        \* timeout: int = 300
Timeouts == {1, DefaultTimeout}
\* result.exit_status as asyncssh reports it: the exit code of the command,
\* or -1 when the command was ended by a signal.
ExitStatuses == {0, 1, 255, -1}
Stdouts == {"", "out"}
Stderrs == {"", "Command timed out after 300 seconds"}
NoOutput ==
    [run |-> "none", exit_status |-> 0, stdout |-> "", stderr |-> "",
     timeout |-> DefaultTimeout, close |-> "none"]

\* What can happen during one call: self.connect() returns or raises; if it
\* returned, wait_for(conn.run(...)) returns a result, times out or raises,
\* and then the connection's __aexit__ returns or raises.
Envs ==
    {[connect |-> c, run |-> NoOutput.run, exit_status |-> NoOutput.exit_status,
      stdout |-> NoOutput.stdout, stderr |-> NoOutput.stderr,
      timeout |-> NoOutput.timeout, close |-> NoOutput.close] :
        c \in {"asyncssh.Error", "Exception"}}
    \cup
    {[connect |-> "ok", run |-> "returns", exit_status |-> x, stdout |-> o, stderr |-> e,
      timeout |-> DefaultTimeout, close |-> cl] :
        x \in ExitStatuses, o \in Stdouts, e \in Stderrs, cl \in {"ok", "asyncssh.Error"}}
    \cup
    {[connect |-> "ok", run |-> r, exit_status |-> NoOutput.exit_status,
      stdout |-> NoOutput.stdout, stderr |-> NoOutput.stderr, timeout |-> t, close |-> cl] :
        r \in {"TimeoutError", "asyncssh.Error", "Exception"}, t \in Timeouts,
        cl \in {"ok", "asyncssh.Error"}}

CommandResult(status, stdout, stderr, exit_code) ==
    [status |-> status, stdout |-> stdout, stderr |-> stderr, exit_code |-> exit_code]

\* The try block of run_command: the value it returns, or the class of the
\* exception that leaves it.  An exception raised while the connection is
\* closed replaces the return value or the exception in flight.
TryBlock(env) ==
    LET none == CommandResult("", "", "", 0) IN
    IF env.connect # "ok" THEN [exc |-> env.connect, value |-> none]
    ELSE IF env.close # "ok" THEN [exc |-> env.close, value |-> none]
    ELSE IF env.run # "returns" THEN [exc |-> env.run, value |-> none]
    ELSE [exc |-> "none",
          value |-> CommandResult(IF env.exit_status = 0 THEN "SUCCESS" ELSE "FAILED",
                                  env.stdout, env.stderr, env.exit_status)]

\* Mutant of run_command: a timeout is reported like an exit code of 1.
run_command_TimeoutAsExit(env) ==
    LET try == TryBlock(env) IN
    IF try.exc = "none" THEN [raised |-> FALSE, value |-> try.value]
    ELSE IF try.exc = "TimeoutError"
    THEN [raised |-> FALSE,
          value |-> CommandResult("FAILED", "",
                        "Command timed out after " \o ToString(env.timeout) \o " seconds", 1)]
    ELSE [raised |-> FALSE, value |-> CommandResult("FAILED", "", "error: msg", -1)]

\* run_command with its three except clauses; an exception of a class that
\* none of them names would leave the call.
run_command(env) ==
    LET try == TryBlock(env) IN
    IF try.exc = "none" THEN [raised |-> FALSE, value |-> try.value]
    ELSE IF try.exc = "TimeoutError"
    THEN [raised |-> FALSE,
          value |-> CommandResult("FAILED", "",
                        "Command timed out after " \o ToString(env.timeout) \o " seconds", -1)]
    ELSE IF try.exc = "asyncssh.Error"
    THEN [raised |-> FALSE, value |-> CommandResult("FAILED", "", "SSH error: msg", -1)]
    ELSE IF try.exc = "Exception"
    THEN [raised |-> FALSE, value |-> CommandResult("FAILED", "", "Unexpected error: msg", -1)]
    ELSE [raised |-> TRUE, value |-> CommandResult("", "", "", 0)]

\* One call of run_command; calls remembers what happened and what came back.
RunCommand(env) ==
    /\ Len(calls) < MaxCalls
    /\ calls' = Append(calls, [env |-> env, ret |-> run_command(env)])
    /\ UNCHANGED notExec

ExecInit ==
    /\ calls = <<>>
    /\ jobs = {}
    /\ lastCall = NoCall
    /\ messages = {}
    /\ resp = NoResponse
    /\ answer = NoAnswer
    /\ analyses = <<>>
    /\ ApiIdle
    /\ rules = [rid \in RuleIds |-> NoRule]
    /\ sessions = {}
    /\ executions = <<>>
    /\ req = IdleRequest
    /\ requests = 0
    /\ now = 0

ExecNext == \E env \in Envs : RunCommand(env)

ExecSpec == ExecInit /\ [][ExecNext]_vars

\* ========================================================= chat_engine.py
\* analyze_output_with_llm called on its own, for every outcome of the LLM
\* call inside it.
MaxAnalyses == 3             \* analyze_output_with_llm calls made

Analyze(reply) ==
    /\ Len(analyses) < MaxAnalyses
    /\ analyses' = Append(analyses, [reply |-> reply, result |-> analyze_output_with_llm(reply)])
    /\ UNCHANGED notEngine

AnalyzerInit ==
    /\ analyses = <<>>
    /\ ApiIdle
    /\ calls = <<>>
    /\ jobs = {}
    /\ lastCall = NoCall
    /\ messages = {}
    /\ resp = NoResponse
    /\ answer = NoAnswer
    /\ rules = [rid \in RuleIds |-> NoRule]
    /\ sessions = {}
    /\ executions = <<>>
    /\ req = IdleRequest
    /\ requests = 0
    /\ now = 0

AnalyzerNext == \E reply \in LLMReplies : Analyze(reply)

AnalyzerSpec == AnalyzerInit /\ [][AnalyzerNext]_vars

\* ============================================ chat_engine.py: resolve_node
\* Strings are sequences of characters.
Digit == {"1", "2", "3", "4", "9"}
Whitespace == {" ", "\n"}

\* Number of digits of s from position pos on.
RECURSIVE DigitRun(_, _)
DigitRun(s, pos) ==
    IF pos <= Len(s) /\ s[pos] \in Digit THEN 1 + DigitRun(s, pos + 1) ELSE 0

\* \d{1,3} followed by k more times \.\d{1,3}, matched at pos: the position
\* after the match, 0 if there is none.  What follows an octet in the
\* patterns is never a digit, so an octet is a whole run of digits.
RECURSIVE Octets(_, _, _)
Octets(s, pos, k) ==
    LET digits == DigitRun(s, pos) IN
    IF digits \notin 1..3 THEN 0
    ELSE IF k = 0 THEN pos + digits
    ELSE IF pos + digits <= Len(s) /\ s[pos + digits] = "." THEN Octets(s, pos + digits + 1, k - 1)
    ELSE 0

\* ip_pattern = r'\((\d{1,3}\.\d{1,3}\.\d{1,3}\.\d{1,3})\)' matched at pos:
\* the position of the closing parenthesis, 0 if there is no match.
ParenMatchAt(s, pos) ==
    IF pos <= Len(s) /\ s[pos] = "("
    THEN LET stop == Octets(s, pos + 1, 3) IN
         IF stop # 0 /\ stop <= Len(s) /\ s[stop] = ")" THEN stop ELSE 0
    ELSE 0

\* re.search(ip_pattern, s): the start of the leftmost match from pos on, 0
\* if there is none.
RECURSIVE Search(_, _)
Search(s, pos) ==
    IF pos > Len(s) THEN 0
    ELSE IF ParenMatchAt(s, pos) # 0 THEN pos
    ELSE Search(s, pos + 1)

\* re.sub(ip_pattern, '', s), from pos on: every match removed.
RECURSIVE Sub(_, _)
Sub(s, pos) ==
    IF pos > Len(s) THEN <<>>
    ELSE IF ParenMatchAt(s, pos) # 0 THEN Sub(s, ParenMatchAt(s, pos) + 1)
    ELSE <<s[pos]>> \o Sub(s, pos + 1)

\* str.strip()
RECURSIVE strip(_)
strip(s) ==
    IF s = <<>> THEN s
    ELSE IF s[1] \in Whitespace THEN strip(Tail(s))
    ELSE IF s[Len(s)] \in Whitespace THEN strip(SubSeq(s, 1, Len(s) - 1))
    ELSE s

\* re.match(r'^\d{1,3}\.\d{1,3}\.\d{1,3}\.\d{1,3}$', s): $ matches at the
\* end of the string and before a newline that ends the string.
DirectMatch(s) ==
    LET stop == Octets(s, 1, 3) IN
    /\ stop # 0
    /\ \/ stop = Len(s) + 1
       \/ (stop = Len(s) /\ s[stop] = "\n")

\* A node configuration: a dict with the keys name, hostname, username,
\* port, auth_type and credential; "absent" stands for a key the dict does
\* not have, "None" for the value None.
Config(name, hostname, username, port, auth_type, credential) ==
    [name |-> name, hostname |-> hostname, username |-> username, port |-> port,
     auth_type |-> auth_type, credential |-> credential]
DefaultConfig(name, hostname) == Config(name, hostname, "ubuntu", 22, "absent", "absent")
\* None, where a configuration is expected.
NoConfig == Config(<<>>, <<>>, "None", 0, "None", "None")

\* resolve_node(node_name, known_nodes) -> (resolved, node_config)
resolve_node(node_name, known_nodes) ==
    IF node_name \in DOMAIN known_nodes
    THEN [resolved |-> TRUE, config |-> known_nodes[node_name]]
    ELSE IF Search(node_name, 1) # 0
    THEN LET start == Search(node_name, 1)
             ip == SubSeq(node_name, start + 1, ParenMatchAt(node_name, start) - 1)
             clean_name == strip(Sub(node_name, 1))
         IN  [resolved |-> TRUE,
              config |-> DefaultConfig(IF clean_name # <<>> THEN clean_name ELSE node_name, ip)]
    ELSE IF DirectMatch(node_name)
    THEN [resolved |-> TRUE, config |-> DefaultConfig(node_name, node_name)]
    ELSE [resolved |-> FALSE, config |-> NoConfig]

\* resolve_node called on its own.
MaxResolves == 2             \* resolve_node calls made

\* Names given to resolve_node: p, w, the empty name, 1.2.3.4, 999.1.2.3,
\* 1.2.3, 1.2.3.4.1, 1234.1.2.3, 1.2.3.4 followed by a newline,
\* w (1.2.3.4), (1.2.3.4), (1.2.3.4 without the closing parenthesis,
\* a1.2.3.4 and (1.2.3.4)(9.9.9.9).
NodeNames ==
    {<<"p">>, <<"w">>, <<>>, <<"1", ".", "2", ".", "3", ".", "4">>,
     <<"9", "9", "9", ".", "1", ".", "2", ".", "3">>, <<"1", ".", "2", ".", "3">>,
     <<"1", ".", "2", ".", "3", ".", "4", ".", "1">>,
     <<"1", "2", "3", "4", ".", "1", ".", "2", ".", "3">>,
     <<"1", ".", "2", ".", "3", ".", "4", "\n">>,
     <<"w", " ", "(", "1", ".", "2", ".", "3", ".", "4", ")">>,
     <<"(", "1", ".", "2", ".", "3", ".", "4", ")">>,
     <<"(", "1", ".", "2", ".", "3", ".", "4">>, <<"a", "1", ".", "2", ".", "3", ".", "4">>,
     <<"(", "1", ".", "2", ".", "3", ".", "4", ")", "(", "9", ".", "9", ".", "9", ".", "9", ")">>}

\* known_nodes given to resolve_node: empty, the node p, and the node p
\* with a node whose name is an address.
Stored(name) == Config(name, <<"9", ".", "9", ".", "9", ".", "9">>, "admin", 2222, "password", "None")
KnownNodeDicts ==
    {<<>>,
     [name \in {<<"p">>} |-> Stored(name)],
     [name \in {<<"p">>, <<"1", ".", "2", ".", "3", ".", "4">>} |-> Stored(name)]}

\* A call of resolve_node: its arguments, what it returned and known_nodes
\* after it.  resolve_node assigns to no key of known_nodes.
Resolve(node_name, known_nodes) ==
    /\ Len(resolved) < MaxResolves
    /\ resolved' = Append(resolved, [node_name |-> node_name, known_nodes |-> known_nodes,
                                     result |-> resolve_node(node_name, known_nodes),
                                     after |-> known_nodes])
    /\ UNCHANGED notResolve

\* ==================================== chat_api.py: send_message and reads
MaxChatRequests == 3         \* requests made to the chat API
MaxItems == 2                \* nodes named in all the send_message requests together

\* crypto.py: the token Fernet makes of a text and the text of a token.
encrypt_credential(plain_text) == [token |-> plain_text]
decrypt_credential(encrypted_text) == encrypted_text.token
\* credential_encrypted is NULL.
NoToken == [token |-> "None"]

\* json.dumps and json.loads of a list of dicts.
json_dumps(value) == [json |-> value]
json_loads(document) == document.json

\* Names of nodes: two known nodes, an address and a name nobody knows.
Primary == <<"p">>
Backup == <<"b">>
Address == <<"1", ".", "2", ".", "3", ".", "4">>
Unknown == <<"w">>

\* Table known_node: primary was added with a password, backup without a
\* credential (add_known_node).
KnownNodeTable ==
    {[name |-> Primary, hostname |-> Address, username |-> "ubuntu", port |-> 22,
      auth_type |-> "password", credential_encrypted |-> encrypt_credential("hunter2")],
     [name |-> Backup, hostname |-> Address, username |-> "ubuntu", port |-> 22,
      auth_type |-> "private_key", credential_encrypted |-> NoToken]}

\* get_known_nodes(): name -> dict, the credential decrypted.
get_known_nodes ==
    [name \in {node.name : node \in KnownNodeTable} |->
        LET node == CHOOSE node \in KnownNodeTable : node.name = name IN
        Config(node.name, node.hostname, node.username, node.port, node.auth_type,
               IF node.credential_encrypted # NoToken
               THEN decrypt_credential(node.credential_encrypted) ELSE "None")]

\* A node of the rule the LLM returned: a string (the name) or a dict with
\* the keys name and hostname, <<>> standing for a key it does not have.
NodeItems ==
    {[str |-> TRUE, name |-> name, hostname |-> <<>>] : name \in {Primary, Backup, Address, Unknown}}
    \cup {[str |-> FALSE, name |-> Primary, hostname |-> <<>>],
          [str |-> FALSE, name |-> Unknown, hostname |-> Address]}

ItemLists(n) == UNION {[1..k -> NodeItems] : k \in 0..n}

\* The dict of a node item as it appears in rule_data; port 0 stands for no
\* port key.
ItemDict(node_item) ==
    Config(node_item.name, node_item.hostname, "absent", 0, "absent", "absent")

\* config.update(node_item)
update(config, node_item) ==
    [config EXCEPT !.name = IF node_item.name # <<>> THEN node_item.name ELSE @,
                   !.hostname = IF node_item.hostname # <<>> THEN node_item.hostname ELSE @]

\* The loop of send_message over rule_data["nodes"], from item k on.
\* resolve_node returns the dict of known_nodes itself, so update changes
\* known_nodes and every entry of resolved_nodes that is that dict: an entry
\* of resolved_nodes is a reference into known_nodes (ref) or a dict of its
\* own (val).
RECURSIVE ResolveNodes(_, _, _, _, _)
ResolveNodes(nodes, k, known_nodes, resolved_nodes, unresolved_nodes) ==
    IF k > Len(nodes)
    THEN [resolved_nodes |-> [j \in DOMAIN resolved_nodes |->
                                 IF resolved_nodes[j].ref # <<>>
                                 THEN known_nodes[resolved_nodes[j].ref]
                                 ELSE resolved_nodes[j].val],
          unresolved_nodes |-> unresolved_nodes]
    ELSE LET node_item == nodes[k]
             node_name == IF node_item.name # <<>> THEN node_item.name ELSE node_item.hostname
             found == resolve_node(node_name, known_nodes)
             config == IF node_item.str THEN found.config ELSE update(found.config, node_item)
         IN  IF found.resolved /\ node_name \in DOMAIN known_nodes
             THEN ResolveNodes(nodes, k + 1, [known_nodes EXCEPT ![node_name] = config],
                               Append(resolved_nodes, [ref |-> node_name, val |-> NoConfig]),
                               unresolved_nodes)
             ELSE IF found.resolved
             THEN ResolveNodes(nodes, k + 1, known_nodes,
                               Append(resolved_nodes, [ref |-> <<>>, val |-> config]),
                               unresolved_nodes)
             ELSE IF ~node_item.str /\ node_item.hostname # <<>>
             THEN ResolveNodes(nodes, k + 1, known_nodes,
                               Append(resolved_nodes, [ref |-> <<>>, val |-> ItemDict(node_item)]),
                               unresolved_nodes)
             ELSE ResolveNodes(nodes, k + 1, known_nodes, resolved_nodes,
                               Append(unresolved_nodes, node_name))

\* send_message for a request that parse_user_intent answers with result:
\* the nodes_json of the rule it stores (none for a clarification or a chat
\* answer) and the nodes of the rule in its response.
send_message(result) ==
    LET looked == ResolveNodes(result.nodes, 1, get_known_nodes, <<>>, <<>>) IN
    IF result.type # "rule" THEN [stored |-> <<>>, body |-> <<>>]
    ELSE IF looked.unresolved_nodes # <<>> /\ looked.resolved_nodes = <<>>
    THEN [stored |-> <<>>, body |-> <<>>]
    ELSE [stored |-> <<json_dumps(looked.resolved_nodes)>>,
          body |-> <<[j \in DOMAIN result.nodes |-> ItemDict(result.nodes[j])]>>]

\* POST /message
SendMessage(result) ==
    /\ chatApi.n < MaxChatRequests
    /\ chatApi.items + Len(result.nodes) <= MaxItems
    /\ LET sent == send_message(result) IN
       chatApi' = [n |-> chatApi.n + 1,
                   items |-> chatApi.items + Len(result.nodes),
                   nodes_json |-> chatApi.nodes_json \o sent.stored,
                   op |-> "send_message", body |-> sent.body]
    /\ UNCHANGED notChatApi

\* GET /sessions/{session_id}/messages and GET /history: the rule of every
\* rule card is returned with "nodes": json.loads(rule.nodes_json).  Every
\* rule is stored in session 1.
ReadMessages(op, session_id) ==
    /\ chatApi.n < MaxChatRequests
    /\ chatApi' = [chatApi EXCEPT
            !.n = @ + 1, !.op = op,
            !.body = IF op = "get_chat_history" \/ session_id = 1
                     THEN [r \in DOMAIN chatApi.nodes_json |-> json_loads(chatApi.nodes_json[r])]
                     ELSE <<>>]
    /\ UNCHANGED notChatApi

\* GET /rules: the rows without their nodes.
GetRules ==
    /\ chatApi.n < MaxChatRequests
    /\ chatApi' = [chatApi EXCEPT !.n = @ + 1, !.op = "get_rules", !.body = <<>>]
    /\ UNCHANGED notChatApi

IntentResults ==
    {[type |-> "rule", nodes |-> nodes] : nodes \in ItemLists(MaxItems)}
    \cup {[type |-> type, nodes |-> <<>>] : type \in {"clarification", "chat"}}

\* Nothing of the streaming backend, the executor, the scheduler and the
\* analyzer has run.
CoreIdle ==
    /\ analyses = <<>>
    /\ calls = <<>>
    /\ jobs = {}
    /\ lastCall = NoCall
    /\ messages = {}
    /\ resp = NoResponse
    /\ answer = NoAnswer
    /\ rules = [rid \in RuleIds |-> NoRule]
    /\ sessions = {}
    /\ executions = <<>>
    /\ req = IdleRequest
    /\ requests = 0
    /\ now = 0

ChatApiInit == CoreIdle /\ ApiIdle

ChatApiNext ==
    \/ \E result \in IntentResults : SendMessage(result)
    \/ \E session_id \in {1, 2} : ReadMessages("get_session_messages", session_id)
    \/ ReadMessages("get_chat_history", 0)
    \/ GetRules

ChatApiSpec == ChatApiInit /\ [][ChatApiNext]_vars

\* resolve_node called on its own, for every name and known_nodes above.
ResolveInit == CoreIdle /\ ApiIdle

ResolveNext ==
    \E node_name \in NodeNames, known_nodes \in KnownNodeDicts : Resolve(node_name, known_nodes)

ResolveSpec == ResolveInit /\ [][ResolveNext]_vars

\* ================================================= chat_api.py: get_report
MaxReportNodes == 2          \* nodes of the rule reported on
MaxReportCmds == 2           \* commands of the rule reported on

\* An event of timeline_json as get_report reads it: its type, the text of
\* its message (and the command the text names), its status.
TimelineEvent(type, text, command, status) ==
    [type |-> type, text |-> text, command |-> command, status |-> status]

\* What one run of command cmd on a node leaves in the timeline: the steps
\* the worker put for it (chat_api.py:727-764), and the incident event when
\* the drain loop took it (chat_api.py:807-810).
CommandEvents(cmd, condition_met, drained) ==
    <<TimelineEvent("step", "executing", cmd, "none"),
      TimelineEvent("step", "output_received", 0, "success"),
      TimelineEvent("step", "analyzing", 0, "none")>>
    \o (IF condition_met
        THEN <<TimelineEvent("step", "condition_met", 0, "warning")>>
             \o (IF drained THEN <<TimelineEvent("incident", "incident_raised", 0, "none")>>
                 ELSE <<>>)
        ELSE <<TimelineEvent("step", "condition_not_met", 0, "success")>>)

\* A sequential execution goes on: the next command is run on the node
\* whose turn it is, and its events are added to the timeline.
ReportedRun(condition_met, drained) ==
    /\ ~report.asked
    /\ report.pos < report.n * report.m
    /\ LET node == (report.pos \div report.m) + 1
           cmd == (report.pos % report.m) + 1
       IN  report' = [report EXCEPT
               !.pos = @ + 1,
               !.timeline = @ \o CommandEvents(cmd, condition_met, drained),
               !.met = IF condition_met THEN @ \cup {<<node, cmd>>} ELSE @]
    /\ UNCHANGED notReport

\* command_results.get(cmd_text, {}) for a command no event named.
NoCommandResult == [executed |-> FALSE, status |-> "OK"]

\* The loop of get_report over the timeline, from event k on:
\* command_results is keyed by the text of the command alone.
RECURSIVE CommandResults(_, _, _, _)
CommandResults(timeline, k, command_results, current_cmd) ==
    IF k > Len(timeline) THEN command_results
    ELSE LET event == timeline[k] IN
         IF event.text = "executing"
         THEN CommandResults(timeline, k + 1,
                  [command_results EXCEPT ![event.command] = [executed |-> TRUE, status |-> "OK"]],
                  event.command)
         ELSE IF current_cmd # 0 /\ (event.text = "condition_met" \/ event.status = "warning")
         THEN CommandResults(timeline, k + 1,
                  [command_results EXCEPT ![current_cmd].status = "NOK"], current_cmd)
         ELSE IF current_cmd # 0 /\ event.text = "condition_not_met"
         THEN CommandResults(timeline, k + 1, command_results, current_cmd)
         ELSE IF event.type = "incident" /\ current_cmd # 0
         THEN CommandResults(timeline, k + 1,
                  [command_results EXCEPT ![current_cmd].status = "NOK"], current_cmd)
         ELSE CommandResults(timeline, k + 1, command_results, current_cmd)

\* get_report: one row for each node and command of the rule.
get_report(n, m, timeline) ==
    LET command_results == CommandResults(timeline, 1, [cmd \in 1..m |-> NoCommandResult], 0) IN
    {[Nodename |-> node, Command |-> cmd,
      Deviationstatus |-> command_results[cmd].status,
      Executionstatus |-> IF command_results[cmd].executed THEN "Executed" ELSE "-"] :
        node \in 1..n, cmd \in 1..m}

\* timeline_json of the execution: "[]" until the generator has gone
\* through every node and writes the timeline it collected
\* (chat_api.py:812-816).
timeline_json(r) == IF r.pos = r.n * r.m THEN r.timeline ELSE <<>>

\* GET /report/{rule_id}
GetReport ==
    /\ ~report.asked
    /\ report' = [report EXCEPT !.asked = TRUE,
                                !.rows = get_report(report.n, report.m, timeline_json(report))]
    /\ UNCHANGED notReport

ReportInit ==
    /\ CoreIdle
    /\ chatApi = NoChatApi
    /\ run = NoRunbookRun
    /\ runbooks = NoRunbooks
    /\ resolved = <<>>
    /\ report \in {[NoReport EXCEPT !.n = n, !.m = m] : n \in 1..MaxReportNodes, m \in 1..MaxReportCmds}

ReportNext ==
    \/ \E condition_met \in BOOLEAN, drained \in BOOLEAN : ReportedRun(condition_met, drained)
    \/ GetReport

ReportSpec == ReportInit /\ [][ReportNext]_vars

\* ============================================ executor.py: execute_runbook
MaxRuns == 1                 \* runbook executions created
MaxServers == 2              \* servers linked to the runbook
MaxRunbookCmds == 2          \* commands of the runbook

ServerIds == 1..MaxServers
\* A command row: is_universal, and server_id (0 for NULL).
CommandRows ==
    {[is_universal |-> TRUE, server_id |-> 0]}
    \cup {[is_universal |-> FALSE, server_id |-> server_id] : server_id \in 0..MaxServers}
CommandLists == UNION {[1..k -> CommandRows] : k \in 0..MaxRunbookCmds}

\* Mutant of update_status: completed_at is stamped on every update.
update_status_AlwaysStamps(r, status) ==
    [r EXCEPT !.status = status, !.completed_at = r.clock + 1, !.clock = r.clock + 1]

\* ExecutionCRUD.update_status on the row of the execution.
update_status(r, status) ==
    IF status \in {"success", "failed", "partial"}
    THEN [r EXCEPT !.status = status, !.completed_at = r.clock + 1, !.clock = r.clock + 1]
    ELSE [r EXCEPT !.status = status]

\* execute_runbook_endpoint / execute_runbook_job: ExecutionCRUD.create, the
\* row starts pending; execute_runbook is started for it.
CreateExecution ==
    /\ run.pc \in {"idle", "done", "crashed"}
    /\ run.n < MaxRuns
    /\ run' = [NoRunbookRun EXCEPT !.n = run.n + 1, !.clock = run.clock,
                                   !.pc = "created", !.status = "pending"]
    /\ UNCHANGED notRun

\* execute_runbook: update_status(RUNNING).
BeginRunbook ==
    /\ run.pc = "created"
    /\ run' = [update_status(run, "running") EXCEPT !.pc = "loading"]
    /\ UNCHANGED notRun

\* execute_runbook, from RunbookCRUD.get_by_id to AIEngine(...): the three
\* early returns, or the loop over the commands is entered.  The runbook
\* may have been deleted since the execution was created; Groq(api_key)
\* may raise, which ends execute_runbook with the row as it is.
LoadRunbook(exists, servers, commands, ai) ==
    /\ run.pc = "loading"
    /\ run' = IF ~exists \/ servers = {} \/ commands = <<>>
              THEN [update_status(run, "failed") EXCEPT !.pc = "done"]
              ELSE IF ai = "raise" THEN [run EXCEPT !.pc = "crashed"]
              ELSE [run EXCEPT !.pc = "commands", !.servers = servers,
                               !.commands = commands, !.k = 1]
    /\ UNCHANGED notRun

\* The servers a command runs on.
target_servers(servers, command) ==
    IF command.is_universal THEN servers
    ELSE {s \in servers : s = command.server_id}

\* The servers of a set in the order of the query result.
RECURSIVE InOrder(_)
InOrder(servers) ==
    IF servers = {} THEN <<>>
    ELSE LET s == CHOOSE s \in servers : \A t \in servers : s <= t
         IN  <<s>> \o InOrder(servers \ {s})

\* The body of the loop over the results of one command: one row of
\* execution_result per result, and the two flags.
RECURSIVE ProcessResults(_, _, _, _)
ProcessResults(r, targets, outcome, j) ==
    IF j > Len(targets) THEN r
    ELSE LET status == IF outcome[targets[j]] = "SUCCESS" THEN "success" ELSE "failed"
         IN  ProcessResults(
                 [r EXCEPT !.any_success = IF status = "success" THEN TRUE ELSE @,
                           !.all_success = IF status = "success" THEN @ ELSE FALSE,
                           !.results = Append(@, [command |-> r.k, server_id |-> targets[j],
                                                  status |-> status])],
                 targets, outcome, j + 1)

\* One turn of the loop over the commands: execute_on_servers returned
\* outcome (server -> "SUCCESS" / "FAILED": an exception of a task counts as
\* FAILED), the results are stored.
RunbookCommand(outcome) ==
    /\ run.pc = "commands"
    /\ run.k <= Len(run.commands)
    /\ DOMAIN outcome = target_servers(run.servers, run.commands[run.k])
    /\ run' = [ProcessResults(run, InOrder(DOMAIN outcome), outcome, 1) EXCEPT !.k = run.k + 1]
    /\ UNCHANGED notRun

\* The final status execute_runbook computes after the loop.
final_status(r) ==
    IF r.all_success THEN "success"
    ELSE IF r.any_success THEN "partial"
    ELSE "failed"

\* After the loop: update_status(final_status).
FinishRunbook ==
    /\ run.pc = "commands"
    /\ run.k > Len(run.commands)
    /\ run' = [update_status(run, final_status(run)) EXCEPT !.pc = "done"]
    /\ UNCHANGED notRun

RunbookNext ==
    \/ CreateExecution
    \/ BeginRunbook
    \/ \E exists \in BOOLEAN, servers \in SUBSET ServerIds, commands \in CommandLists,
          ai \in {"ok", "raise"} : LoadRunbook(exists, servers, commands, ai)
    \/ \E targets \in SUBSET ServerIds : \E outcome \in [targets -> {"SUCCESS", "FAILED"}] :
          RunbookCommand(outcome)
    \/ FinishRunbook

RunbookInit == CoreIdle /\ ApiIdle

RunbookSpec == RunbookInit /\ [][RunbookNext]_vars

\* ============================================================ scheduler.py
MaxSchedCalls == 4           \* schedule_runbook / unschedule_runbook calls made

RunbookIds == {1, 2}
ScheduleTypes == {"cron", "once", "weekly"}
\* cron_expression after split(): the empty sequence stands for None, ""
\* and blank strings; "61" is a minute that CronTrigger rejects.
CronExpressions == {<<>>, <<"0", "0", "*", "*", "0">>, <<"0", "0", "*", "*">>,
                    <<"61", "0", "*", "*", "0">>}
RunAts == {"None", "t1", "t2"}

\* job_id = f"runbook_{runbook_id}"
JobId(runbook_id) == runbook_id

\* scheduler.get_job / remove_job / add_job(..., replace_existing=True) on
\* the set of jobs of the store.
get_job(store, job_id) == {j \in store : j.id = job_id}
remove_job(store, job_id) == {j \in store : j.id # job_id}
add_job(store, job) == {j \in store : j.id # job.id} \cup {job}

\* CronTrigger(minute=..., ...) raises ValueError for a field out of range.
CronTriggerRaises(parts) == \E k \in DOMAIN parts : parts[k] \notin {"0", "*"}

\* schedule_runbook raises ValueError for these arguments.
ScheduleRaises(schedule_type, cron_expression, run_at) ==
    IF schedule_type = "cron"
    THEN cron_expression = <<>> \/ Len(cron_expression) # 5 \/ CronTriggerRaises(cron_expression)
    ELSE IF schedule_type = "once" THEN run_at = "None"
    ELSE TRUE

Trigger(schedule_type, cron_expression, run_at) ==
    IF schedule_type = "cron"
    THEN [type |-> "cron", fields |-> cron_expression, run_date |-> "None"]
    ELSE [type |-> "date", fields |-> <<>>, run_date |-> run_at]

Called(op, id, raised, ret) ==
    [n |-> lastCall.n + 1, op |-> op, id |-> id, raised |-> raised, ret |-> ret,
     before |-> [op |-> lastCall.op, id |-> lastCall.id, ret |-> lastCall.ret]]

\* Mutant of ScheduleRunbook: the new job is put next to the jobs held.
ScheduleRunbook_KeepsOld(runbook_id, schedule_type, cron_expression, run_at) ==
    /\ lastCall.n < MaxSchedCalls
    /\ LET raises == ScheduleRaises(schedule_type, cron_expression, run_at)
           job == [id |-> JobId(runbook_id), serial |-> lastCall.n + 1,
                   trigger |-> Trigger(schedule_type, cron_expression, run_at)]
       IN  /\ jobs' = IF raises THEN jobs ELSE jobs \cup {job}
           /\ lastCall' = Called("schedule", runbook_id, raises, ~raises)
    /\ UNCHANGED notSched

\* schedule_runbook: the existing job of the runbook is removed first, then
\* the arguments are checked and the new job added; ret stands for the
\* job id returned (FALSE when the call raised).
ScheduleRunbook(runbook_id, schedule_type, cron_expression, run_at) ==
    /\ lastCall.n < MaxSchedCalls
    /\ LET job_id == JobId(runbook_id)
           removed == IF get_job(jobs, job_id) # {} THEN remove_job(jobs, job_id) ELSE jobs
           raises == ScheduleRaises(schedule_type, cron_expression, run_at)
           job == [id |-> job_id, serial |-> lastCall.n + 1,
                   trigger |-> Trigger(schedule_type, cron_expression, run_at)]
       IN  /\ jobs' = IF raises THEN removed ELSE add_job(removed, job)
           /\ lastCall' = Called("schedule", runbook_id, raises, ~raises)
    /\ UNCHANGED notSched

\* Mutant of UnscheduleRunbook: it answers True whatever the store holds.
UnscheduleRunbook_AlwaysTrue(runbook_id) ==
    /\ lastCall.n < MaxSchedCalls
    /\ jobs' = remove_job(jobs, JobId(runbook_id))
    /\ lastCall' = Called("unschedule", runbook_id, FALSE, TRUE)
    /\ UNCHANGED notSched

\* unschedule_runbook
UnscheduleRunbook(runbook_id) ==
    /\ lastCall.n < MaxSchedCalls
    /\ LET job_id == JobId(runbook_id)
           job == get_job(jobs, job_id)
       IN  /\ jobs' = IF job # {} THEN remove_job(jobs, job_id) ELSE jobs
           /\ lastCall' = Called("unschedule", runbook_id, FALSE, job # {})
    /\ UNCHANGED notSched

\* A one-time job (DateTrigger) fires: APScheduler runs it and, as it has
\* no further run time, takes it out of the store.
JobFires(job) ==
    /\ job \in jobs
    /\ job.trigger.type = "date"
    /\ jobs' = jobs \ {job}
    /\ UNCHANGED <<lastCall, notSched>>

SchedInit ==
    /\ jobs = {}
    /\ lastCall = NoCall
    /\ messages = {}
    /\ resp = NoResponse
    /\ answer = NoAnswer
    /\ analyses = <<>>
    /\ ApiIdle
    /\ calls = <<>>
    /\ rules = [rid \in RuleIds |-> NoRule]
    /\ sessions = {}
    /\ executions = <<>>
    /\ req = IdleRequest
    /\ requests = 0
    /\ now = 0

SchedNext ==
    \/ \E id \in RunbookIds, t \in ScheduleTypes, c \in CronExpressions, r \in RunAts :
          ScheduleRunbook(id, t, c, r)
    \/ \E id \in RunbookIds : UnscheduleRunbook(id)
    \/ \E job \in jobs : JobFires(job)

SchedSpec == SchedInit /\ [][SchedNext]_vars

\* ================================================== api.py: runbook API
MaxApiCalls == 3             \* requests made to the runbook API

\* schedule_runbook on the store: the jobs it leaves and whether it raised
\* ValueError.  serial tells the jobs added by different calls apart.
schedule_runbook(store, runbook_id, schedule_type, cron_expression, run_at, serial) ==
    LET job_id == JobId(runbook_id)
        removed == IF get_job(store, job_id) # {} THEN remove_job(store, job_id) ELSE store
        raises == ScheduleRaises(schedule_type, cron_expression, run_at)
        job == [id |-> job_id, serial |-> serial,
                trigger |-> Trigger(schedule_type, cron_expression, run_at)]
    IN  [jobs |-> IF raises THEN removed ELSE add_job(removed, job), raised |-> raises]

\* unschedule_runbook on the store.
unschedule_runbook(store, runbook_id) ==
    IF get_job(store, JobId(runbook_id)) # {} THEN remove_job(store, JobId(runbook_id)) ELSE store

\* A row of table runbook; children tells whether rows of command or
\* execution refer to it.
RunbookRow(is_scheduled, children) ==
    [exists |-> TRUE, is_scheduled |-> is_scheduled, children |-> children]
NoRunbook == [exists |-> FALSE, is_scheduled |-> FALSE, children |-> FALSE]

\* POST /runbooks/{runbook_id}/schedule: 404 for a runbook that does not
\* exist; else schedule_runbook, and the row is updated unless it raised
\* (400).  schedule_type is "once" or "cron" (ScheduleType).
ScheduleEndpoint(runbook_id, schedule_type, cron_expression, run_at) ==
    /\ runbooks.n < MaxApiCalls
    /\ LET row == runbooks.rows[runbook_id]
           called == schedule_runbook(jobs, runbook_id, schedule_type, cron_expression, run_at,
                                      runbooks.n + 1)
       IN  /\ jobs' = IF row.exists THEN called.jobs ELSE jobs
           /\ runbooks' = [runbooks EXCEPT !.n = @ + 1,
                              !.rows[runbook_id].is_scheduled =
                                  IF row.exists /\ ~called.raised THEN TRUE ELSE @]
    /\ UNCHANGED notRunbookApi

\* DELETE /runbooks/{runbook_id}/schedule: unschedule_runbook, then
\* RunbookCRUD.update, which does nothing for a runbook that does not exist.
UnscheduleEndpoint(runbook_id) ==
    /\ runbooks.n < MaxApiCalls
    /\ jobs' = unschedule_runbook(jobs, runbook_id)
    /\ runbooks' = [runbooks EXCEPT !.n = @ + 1, !.rows[runbook_id].is_scheduled = FALSE]
    /\ UNCHANGED notRunbookApi

\* DELETE /runbooks/{runbook_id}: unschedule_runbook, then
\* RunbookCRUD.delete.  Deleting a row that commands or executions refer to
\* sets their runbook_id, which is NOT NULL, to NULL: the commit raises and
\* the row stays.
DeleteRunbook(runbook_id) ==
    /\ runbooks.n < MaxApiCalls
    /\ jobs' = unschedule_runbook(jobs, runbook_id)
    /\ runbooks' = [runbooks EXCEPT !.n = @ + 1,
                       !.rows[runbook_id] = IF @.exists /\ @.children THEN @ ELSE NoRunbook]
    /\ UNCHANGED notRunbookApi

\* A one-time job fires: APScheduler runs execute_runbook_job and takes the
\* job out of the store; execute_runbook_job does not write the runbook.
OneTimeJobFires(job) ==
    /\ job \in jobs
    /\ job.trigger.type = "date"
    /\ jobs' = jobs \ {job}
    /\ UNCHANGED <<runbooks, notRunbookApi>>

RunbookApiInit ==
    /\ CoreIdle
    /\ chatApi = NoChatApi
    /\ run = NoRunbookRun
    /\ resolved = <<>>
    /\ report = NoReport
    /\ runbooks \in {[n |-> 0, rows |-> rows] :
                        rows \in [RunbookIds -> {NoRunbook, RunbookRow(FALSE, FALSE),
                                                 RunbookRow(FALSE, TRUE)}]}

RunbookApiNext ==
    \/ \E id \in RunbookIds, t \in {"cron", "once"}, c \in CronExpressions, r \in RunAts :
          ScheduleEndpoint(id, t, c, r)
    \/ \E id \in RunbookIds : UnscheduleEndpoint(id)
    \/ \E id \in RunbookIds : DeleteRunbook(id)
    \/ \E job \in jobs : OneTimeJobFires(job)

RunbookApiSpec == RunbookApiInit /\ [][RunbookApiNext]_vars

\* ===================================================== session requests
\* DELETE /sessions/{id} requests on a database with two sessions, where
\* the answers are observed.  Messages and rules may name a session that
\* does not exist: send_message stores request.session_id unchecked.  One
\* of the rules may have been executed.
MaxDeletes == 2              \* DELETE /sessions/{id} requests made

AllSessionIds == {1, 2}
AllRuleIds == {1, 2}
SessionRule(s) ==
    [exists |-> TRUE, session_id |-> s, nodes |-> 1, commands |-> 1, command |-> TRUE,
     execution_mode |-> "sequential", last_executed_at |-> 0]
CandidateMessages == {Message(1, 1, 0), Message(2, 1, 1), Message(3, 2, 0), Message(4, 2, 2)}

SessionInit ==
    /\ sessions \in SUBSET AllSessionIds
    /\ messages \in SUBSET CandidateMessages
    /\ rules \in [AllRuleIds -> {NoRule} \cup {SessionRule(s) : s \in AllSessionIds}]
    /\ resp = NoResponse
    /\ answer = NoAnswer
    /\ analyses = <<>>
    /\ ApiIdle
    /\ executions \in {<<>>} \cup
            {<<[rule_id |-> rid, status |-> st, timeline |-> <<>>, completed_at |-> 0]>> :
                rid \in {r \in AllRuleIds : rules[r].exists}, st \in {"executing", "completed"}}
    /\ req = IdleRequest
    /\ requests = 0
    /\ now = 0
    /\ calls = <<>>
    /\ jobs = {}
    /\ lastCall = NoCall

\* One DELETE /sessions/{id} request and its answer.
DeleteSessionRequest(s) ==
    /\ resp.n < MaxDeletes
    /\ LET out == delete_session(Tables(sessions, messages, rules, executions), s) IN
       /\ sessions' = out.db.sessions
       /\ messages' = out.db.messages
       /\ rules' = out.db.rules
       /\ resp' = [n |-> resp.n + 1, session_id |-> s, status |-> out.status]
    /\ UNCHANGED <<executions, req, requests, now, execVars, schedVars, answer, engineVars,
                   apiVars>>

SessionNext == \E s \in AllSessionIds : DeleteSessionRequest(s)

SessionSpec == SessionInit /\ [][SessionNext]_vars

\* ================================================================ claims
\* Helpers for stating the claims.
Nodes == 1..req.n
ErrorsOf(seq, i) == SelectSeq(seq, LAMBDA ev : ev.src = i /\ ev.type = "error")
Texts(seq) == [k \in DOMAIN seq |-> seq[k].message.text]
HasStep(seq, i, text, c) ==
    \E k \in DOMAIN seq :
        seq[k].src = i /\ seq[k].message.text = text /\ seq[k].cmd = c /\ seq[k].type = "step"
HasResult(seq, i, c) ==
    HasStep(seq, i, "condition_met", c) \/ HasStep(seq, i, "condition_not_met", c)

\* Node i has emitted its whole sequence: connecting, connected and, for
\* every command of the plan, executing, output_received, analyzing and a
\* result step; and no error event.
FullSequence(seq, i) ==
    /\ HasStep(seq, i, "connecting", 0)
    /\ HasStep(seq, i, "connected", 0)
    /\ \A c \in 1..req.m :
          /\ HasStep(seq, i, "executing", c)
          /\ HasStep(seq, i, "output_received", c)
          /\ HasStep(seq, i, "analyzing", c)
          /\ HasResult(seq, i, c)
    /\ ErrorsOf(seq, i) = <<>>

\* The worker of node j has ended because its connect or one of its
\* commands raised.
TransportFailed(q, j) == q.w[j].pc = "done" /\ q.w[j].cause \in {"connect", "run"}

\* C1 (state part): a node whose connect or command raised has exactly one
\* error event, and every node whose worker ended without a failure has
\* emitted its whole sequence, whatever happened to the other nodes.
C1_State ==
    \A i \in Nodes :
        /\ Len(ErrorsOf(req.put, i)) <= 1
        /\ TransportFailed(req, i) => Len(ErrorsOf(req.put, i)) = 1
        /\ (req.w[i].pc = "done" /\ req.w[i].cause = "none") => FullSequence(req.put, i)

\* C1 (step part): the step in which node j ends with a transport failure
\* leaves every other worker as it was, except that in sequential mode the
\* next node of the list is started by that very step.
C1_Step ==
    \A j \in Nodes :
        (~TransportFailed(req, j) /\ TransportFailed(req', j) /\ req'.eid = req.eid /\ requests' = requests) =>
            \A i \in Nodes \ {j} :
                IF req.mode = "sequential" /\ i = j + 1
                THEN req.w[i].pc = "pending" /\ req'.w[i].pc \in {"connecting", "crashed"}
                ELSE req'.w[i] = req.w[i]

\* C1: in stream_execution, with N >= 2 nodes in either mode, a connect or
\* command error on one node gives exactly one error event for that node
\* and does not keep any other node from emitting its complete sequence.
C1_NodeFailureIsolated == [](C1_State) /\ [][C1_Step]_vars

\* C1 witness: two nodes, one ended by a transport error with its single
\* error event, the other with its complete sequence, at least one command.
C1_Witness ==
    /\ req.n >= 2 /\ req.m >= 1
    /\ \E j \in Nodes, i \in Nodes :
          /\ i # j
          /\ TransportFailed(req, j) /\ Len(ErrorsOf(req.put, j)) = 1
          /\ req.w[i].pc = "done" /\ FullSequence(req.put, i)

\* The stream without its closing complete event.
Body(seq) == SelectSeq(seq, LAMBDA ev : ev.type # "complete")

\* C2: every event put on the queue is yielded exactly once, in order, and
\* before complete: what has been yielded followed by what is still queued
\* is what has been put; the consumer loop is left only when every task is
\* done; when complete is yielded nothing is left in the queue.
C2_NoEventLostOrDuplicated ==
    (req.started /\ req.pc # "aborted") =>
        /\ Body(req.yielded) \o req.queue = req.put
        /\ req.pc \in {"drain", "done", "crashed"} => TasksDone(req) = NumTasks(req)
        /\ req.pc = "done" => (req.queue = <<>> /\ req.yielded = req.put \o <<CompleteEvent>>)

\* C2 witness: a parallel run whose last task finished while events were
\* still queued (put while the timed-out get was being cancelled); they are
\* drained and the run completes with everything yielded.
C2_Witness ==
    /\ req.started /\ req.mode = "parallel" /\ req.n >= 2
    /\ req.pc = "done"
    /\ \E k \in DOMAIN req.timeline : req.timeline[k].type = "error"
    /\ Len(req.put) >= 4

\* C3: in sequential mode every event of node A is emitted before every
\* event of node B when A is before B in the node list.
C3_SequentialNodeOrder ==
    (req.started /\ req.mode = "sequential") =>
        \A a, b \in DOMAIN req.yielded :
            (a < b /\ req.yielded[a].src > 0 /\ req.yielded[b].src > 0) =>
                req.yielded[a].src <= req.yielded[b].src

\* C3 witness: a sequential run over two nodes, both with events yielded.
C3_Witness ==
    /\ req.started /\ req.mode = "sequential" /\ req.n >= 2
    /\ \E a, b \in DOMAIN req.yielded :
          req.yielded[a].src = 1 /\ req.yielded[b].src = 2 /\ req.yielded[b].cmd >= 1

\* The worker of node i ran all its commands and emitted no error event.
NodeSucceeded(q, i) == q.w[i].pc = "done" /\ q.w[i].cause = "none"

\* C4: the status written at finalize is Success ("completed") iff every
\* node's worker finished all its commands without an error event, Failed
\* iff none did, and Partial otherwise.
C4_StatusClassifiesOutcome ==
    (req.started /\ req.pc = "done" /\ req.n >= 1) =>
        LET ok == {i \in Nodes : NodeSucceeded(req, i)}
            status == executions[req.eid].status
        IN  /\ status = "completed" <=> ok = Nodes
            /\ status = "failed" <=> ok = {}
            /\ status = "partial" <=> (ok # {} /\ ok # Nodes)

Completes(seq) == SelectSeq(seq, LAMBDA ev : ev.type = "complete")

\* C5 (state part): at most one complete is ever yielded and it is the last
\* event of the stream; a generator that has returned has yielded exactly
\* one complete, as its last event, if the run started, and exactly the one
\* error payload (and no complete) if the execution or rule was not found.
C5_State ==
    /\ Len(Completes(req.yielded)) <= 1
    /\ \A k \in DOMAIN req.yielded :
          req.yielded[k].type = "complete" => (k = Len(req.yielded) /\ req.pc = "done")
    /\ (req.pc = "done" /\ req.started) =>
          (req.yielded # <<>> /\ req.yielded[Len(req.yielded)] = CompleteEvent)
    /\ (req.pc = "done" /\ ~req.started) =>
          \/ req.yielded = <<NotFoundEvent("Execution not found")>>
          \/ req.yielded = <<NotFoundEvent("Rule not found")>>

\* C5 (step part): once complete has been yielded the stream of that
\* request gets no further event.
C5_Step ==
    (Len(Completes(req.yielded)) = 1 /\ requests' = requests) => req'.yielded = req.yielded

C6_AnalyzerFailureTolerated ==
    req.started =>
        \A i \in Nodes :
            /\ req.w[i].cause # "analysis"
            /\ ~\E a, b \in DOMAIN req.put :
                  /\ a < b /\ req.put[a].src = i /\ req.put[b].src = i
                  /\ req.put[a].message.text = "analyzing" /\ req.put[b].type = "error"
                  /\ req.put[a].cmd = req.put[b].cmd

\* C7: a plan with no node or no command is rejected before any worker
\* starts: no connecting event, no complete event, no finalized record, and
\* the stream is a single terminal error event.
C7_EmptyPlanRejected ==
    (req.started /\ (req.n = 0 \/ req.m = 0)) =>
        /\ ~\E k \in DOMAIN req.put : req.put[k].message.text = "connecting"
        /\ Completes(req.yielded) = <<>>
        /\ executions[req.eid].status = "executing"
        /\ req.pc = "done" =>
              (Len(req.yielded) = 1 /\ req.yielded[1].type \in {"error", "untyped"})

\* Some step of the worker of node i.
WorkerStep(i) ==
    \/ \E o \in ConnectOutcomes, l \in Lookups : ConnectReturns(i, o, l)
    \/ \E o \in RunOutcomes : RunReturns(i, o)
    \/ \E reply \in LLMReplies : AnalysisReturns(i, reply)
    \/ \E l \in Lookups : CloseReturns(i, l)

\* C8: every command invocation of the streaming path is bounded by a
\* timeout: a worker waiting on a command that never returns still has a
\* step to take (the timeout, ending it with an error event).
C8_CommandTimeoutBounded ==
    \A i \in NodeIdx : req.w[i].pc = "hung" => ENABLED WorkerStep(i)

\* The worker of node i is suspended in the middle of process_node.
Active(q, i) == q.w[i].pc \in {"connecting", "running", "analyzing", "closing"}

\* C9: after the caller aborts a streamed run no worker task is left
\* running, every session is closed, and the events collected so far are on
\* the execution record with a failed (or cancelled) status.
C9_AbortCancelsAndPersists ==
    req.pc = "aborted" =>
        /\ \A i \in Nodes : ~Active(req, i) /\ ~req.w[i].conn
        /\ executions[req.eid].status \in {"failed", "cancelled"}
        /\ executions[req.eid].timeline = req.timeline

\* C10 (record part): a finalized execution record never changes again.
C10_RecordFrozen ==
    \A e \in DOMAIN executions :
        executions[e].status # "executing" => executions'[e] = executions[e]

\* C10 (run part): no stream request starts a run for an execution that is
\* already finalized.
C10_NoRerun ==
    (requests' = requests - 1 /\ req'.started) => executions[req'.eid].status = "executing"

\* C10: an execution record is finalized exactly once, whatever stream
\* requests are made for its id, and its commands are not run again.
C10_FinalizedOnce == [][C10_RecordFrozen /\ C10_NoRerun]_vars

\* C11: at finalize the persisted timeline is exactly the sequence of
\* events yielded before complete, in the order the consumer observed them,
\* incident and error events included.
C11_TimelineIsYieldedStream ==
    (req.started /\ req.pc = "done") =>
        executions[req.eid].timeline = Body(req.yielded)

\* Number of executing step events of node i in seq.
Executing(seq, i) ==
    Len(SelectSeq(seq, LAMBDA ev : ev.src = i /\ ev.type = "step" /\ ev.message.text = "executing"))

\* C12: in a finished run every node either emitted as many executing
\* steps as the plan has commands and no error event, or was cut short by
\* an error: fewer executing steps and exactly one error event, which is
\* the node's last event.
C12_ExecutingStepsPerNode ==
    (req.started /\ req.pc = "done") =>
        \A i \in Nodes :
            LET evs == EventsOf(req.yielded, i)
                errs == ErrorsOf(req.yielded, i)
            IN  \/ (errs = <<>> /\ Executing(req.yielded, i) = req.m)
                \/ /\ Len(errs) = 1
                   /\ Executing(req.yielded, i) < req.m
                   /\ evs[Len(evs)].type = "error"

\* kinds, from position pos on, is the sequence of commands c..m of the
\* node worker state machine: executing, output_received, analyzing, then
\* condition_not_met or condition_met followed by incident.
RECURSIVE CommandsFrom(_, _, _, _)
CommandsFrom(kinds, pos, c, m) ==
    IF c > m THEN pos = Len(kinds) + 1
    ELSE /\ pos + 3 <= Len(kinds)
         /\ kinds[pos] = "executing"
         /\ kinds[pos + 1] = "output_received"
         /\ kinds[pos + 2] = "analyzing"
         /\ \/ kinds[pos + 3] = "condition_not_met" /\ CommandsFrom(kinds, pos + 4, c + 1, m)
            \/ /\ pos + 4 <= Len(kinds)
               /\ kinds[pos + 3] = "condition_met"
               /\ kinds[pos + 4] = "incident"
               /\ CommandsFrom(kinds, pos + 5, c + 1, m)

\* The whole sequence of a node that ran all m commands.
WholeSequence(kinds, m) ==
    /\ Len(kinds) >= 2
    /\ kinds[1] = "connecting"
    /\ kinds[2] = "connected"
    /\ CommandsFrom(kinds, 3, 1, m)

\* C13 (sequence part): in a finished run, a node that ran all its commands
\* contributed the whole sequence of the worker state machine, and a node
\* that could not be connected contributed exactly connecting then error.
C13_Sequences ==
    (req.started /\ req.pc = "done") =>
        \A i \in Nodes :
            /\ NodeSucceeded(req, i) => WholeSequence(Kinds(EventsOf(req.yielded, i)), req.m)
            /\ req.w[i].cause = "connect" =>
                  Kinds(EventsOf(req.yielded, i)) = <<"connecting", "error">>

\* C13 (status part): a parallel run with one reachable and one unreachable
\* node ends with overall status Partial.
C13_Partial ==
    (req.started /\ req.pc = "done" /\ req.mode = "parallel" /\ req.n = 2) =>
        \A i, j \in Nodes :
            (NodeSucceeded(req, i) /\ req.w[j].cause = "connect") =>
                executions[req.eid].status = "partial"

\* C13: the events of one node form the sequence of the node worker state
\* machine; an unreachable node contributes connecting then error; and a
\* parallel run with one reachable and one unreachable node ends Partial.
C13_NodeSequenceAndPartial == C13_Sequences /\ C13_Partial

\* The incident event that belongs to the condition_met step ev.
IncidentFor(ev, inc) ==
    /\ inc.type = "incident"
    /\ inc.src = ev.src /\ inc.cmd = ev.cmd
    /\ inc.node = ev.src
    /\ inc.details.isdict /\ inc.details.condition_met
    /\ inc.severity = inc.details.severity

\* C14 (on a sequence of events): every condition_met step has status
\* warning and is immediately followed by its incident; every incident
\* immediately follows its condition_met step, comes after the analyzing
\* step of the same command, and its command has no condition_not_met step.
IncidentsWellFormed(seq) ==
    \A k \in DOMAIN seq :
        /\ Kind(seq[k]) = "condition_met" =>
              /\ seq[k].status = "warning"
              /\ k + 1 \in DOMAIN seq
              /\ IncidentFor(seq[k], seq[k + 1])
        /\ seq[k].type = "incident" =>
              /\ k - 1 \in DOMAIN seq
              /\ Kind(seq[k - 1]) = "condition_met"
              /\ IncidentFor(seq[k - 1], seq[k])
              /\ \E a \in 1..(k - 1) :
                    /\ Kind(seq[a]) = "analyzing"
                    /\ seq[a].src = seq[k].src /\ seq[a].cmd = seq[k].cmd
              /\ ~HasStep(seq, seq[k].src, "condition_not_met", seq[k].cmd)

\* C14 (state part): the events put so far, and the stream yielded followed
\* by what is still queued, are well formed in that sense; no incident is
\* yielded after complete; a finished stream holds every incident put.
C14_State ==
    req.started =>
        /\ IncidentsWellFormed(req.put)
        /\ IncidentsWellFormed(Body(req.yielded) \o req.queue)
        /\ \A k, c \in DOMAIN req.yielded :
              (req.yielded[k].type = "incident" /\ req.yielded[c].type = "complete") => k < c
        /\ req.pc = "done" =>
              \A k \in DOMAIN req.put :
                  req.put[k].type = "incident" => req.yielded[k] = req.put[k]

\* C14 (step part): the step in which a worker takes the analyzer's answer
\* puts, for some answer the analyzer can give, the condition_met step and
\* the incident carrying that answer if it reports the condition met, and
\* no incident otherwise.
C14_Step ==
    \A i \in Nodes :
        (req.w[i].pc = "analyzing" /\ req'.w[i] # req.w[i] /\ requests' = requests) =>
            \E reply \in LLMReplies :
                LET analysis == analyze_output_with_llm(reply)
                    new == SubSeq(req'.put, Len(req.put) + 1, Len(req'.put))
                    c == req.w[i].cmd
                IN  IF analysis.isdict /\ analysis.condition_met
                    THEN /\ Len(new) >= 2
                         /\ new[1] = StepEvent("condition_met", "warning", i, c)
                         /\ new[2] = IncidentEvent(analysis, i, c)
                    ELSE \A k \in DOMAIN new : new[k].type # "incident"

\* C14: a met condition gives a condition_met step with status warning
\* immediately followed by an incident event with the analyzer's severity,
\* the node and the analysis as details, after that command's analyzing
\* event and before complete; a condition that is not met gives no incident.
C14_IncidentFollowsConditionMet == [](C14_State) /\ [][C14_Step]_vars

\* C14 witness: a finished stream in which the first command's condition
\* was not met and the second command raised a critical incident.
C14_Witness ==
    /\ req.started /\ req.pc = "done" /\ req.m >= 2
    /\ \E i \in Nodes :
          /\ HasStep(req.yielded, i, "condition_not_met", 1)
          /\ \E k \in DOMAIN req.yielded :
                /\ req.yielded[k].type = "incident" /\ req.yielded[k].src = i
                /\ req.yielded[k].cmd = 2 /\ req.yielded[k].severity = "critical"

\* The connecting step events of seq.
Connecting(seq) == SelectSeq(seq, LAMBDA ev : Kind(ev) = "connecting")

\* C15: in a parallel run over N nodes exactly N connecting steps are
\* emitted, exactly one for each node, whatever happens to the nodes.
C15_OneConnectingPerNode ==
    (req.started /\ req.mode = "parallel") =>
        /\ Len(Connecting(req.put)) = req.n
        /\ \A i \in Nodes : Len(Connecting(EventsOf(req.put, i))) = 1

\* The run that has just finished and the finished run before it had the
\* same plan and, node by node, the same sequence of event kinds (which is
\* what equal connect, command and analyzer outcomes give a node).
SameRunTwice ==
    /\ req.started /\ req.pc = "done" /\ req.prev.done
    /\ req.n = req.prev.n /\ req.m = req.prev.m /\ req.mode = req.prev.mode
    /\ \A i \in NodeIdx : Kinds(EventsOf(req.yielded, i)) = req.prev.of[i]

TimedOut(call) ==
    call.env.connect = "ok" /\ call.env.run = "TimeoutError" /\ call.env.close = "ok"
ExitedNonZero(call) ==
    /\ call.env.connect = "ok" /\ call.env.run = "returns" /\ call.env.close = "ok"
    /\ call.env.exit_status \in 1..255

C18_State == \A j1, j2 \in jobs : j1.id = j2.id => j1 = j2

\* C18 (step part): after a schedule_runbook call that returns normally the
\* only job of that runbook is the one this call created.
C18_Step ==
    (lastCall'.n = lastCall.n + 1 /\ lastCall'.op = "schedule" /\ ~lastCall'.raised) =>
        /\ \E j \in jobs' : j.id = JobId(lastCall'.id)
        /\ \A j \in jobs' : j.id = JobId(lastCall'.id) => j.serial = lastCall'.n

\* C18: after any sequence of schedule_runbook and unschedule_runbook calls
\* there is at most one job per runbook id, and a schedule_runbook call that
\* returns normally leaves its own job as the job of that runbook, in place
\* of any earlier one.
C18_OneJobPerRunbook == [](C18_State) /\ [][C18_Step]_vars

\* C18 witness: a runbook scheduled twice in a row holds the job of the
\* second call, next to the job of another runbook.
C18_Witness ==
    /\ lastCall.op = "schedule" /\ ~lastCall.raised
    /\ lastCall.before.op = "schedule" /\ lastCall.before.id = lastCall.id /\ lastCall.before.ret
    /\ \E j \in jobs : j.id = JobId(lastCall.id) /\ j.serial = lastCall.n
    /\ \E j \in jobs : j.id # JobId(lastCall.id)

\* C19 (step part): unschedule_runbook returns True exactly when the runbook
\* had a job, leaves no job of that runbook and every other job as it was;
\* called again right after, it returns False and changes nothing.
C19_Step ==
    (lastCall'.n = lastCall.n + 1 /\ lastCall'.op = "unschedule") =>
        LET job_id == JobId(lastCall'.id) IN
        /\ ~lastCall'.raised
        /\ lastCall'.ret = (\E j \in jobs : j.id = job_id)
        /\ jobs' = {j \in jobs : j.id # job_id}
        /\ (lastCall.op = "unschedule" /\ lastCall.id = lastCall'.id) =>
              (lastCall'.ret = FALSE /\ jobs' = jobs)

\* C19 (state part): after the call the runbook has no job.
C19_State ==
    lastCall.op = "unschedule" => ~\E j \in jobs : j.id = JobId(lastCall.id)

\* C19: unschedule_runbook returns True exactly when a job of the runbook
\* existed, removes that job and no other, and a second call in a row
\* returns False and changes nothing.
C19_UnscheduleRemovesJob == [](C19_State) /\ [][C19_Step]_vars

\* C19 witness: a second unschedule in a row answered False after the first
\* answered True, and the job of the other runbook is still there.
C19_Witness ==
    /\ lastCall.op = "unschedule" /\ ~lastCall.ret
    /\ lastCall.before.op = "unschedule" /\ lastCall.before.id = lastCall.id /\ lastCall.before.ret
    /\ \E j \in jobs : j.id # JobId(lastCall.id)

\* Row r (a message or a rule) belongs to session s.
OfSession(r, s) == r.session_id = s

\* C20 (step part): a DELETE for an existing session that succeeds (200)
\* removes the session, its messages and its rules and nothing else, so
\* that the session's message list is empty; a DELETE for an id with no
\* session answers 404 and changes no table.
C20_Step ==
    (resp'.n = resp.n + 1) =>
        LET s == resp'.session_id IN
        /\ (s \in sessions /\ resp'.status = 200) =>
              /\ sessions' = sessions \ {s}
              /\ messages' = {m \in messages : ~OfSession(m, s)}
              /\ \A rid \in DOMAIN rules :
                    rules'[rid] = IF rules[rid].exists /\ OfSession(rules[rid], s)
                                  THEN NoRule ELSE rules[rid]
              /\ get_session_messages(Tables(sessions', messages', rules', executions'), s) = {}
        /\ s \notin sessions =>
              /\ resp'.status = 404
              /\ sessions' = sessions /\ messages' = messages /\ rules' = rules

\* C20: delete_session, when it succeeds for an existing session, removes
\* the session with all its messages and rules and leaves the other
\* sessions' messages and rules untouched; for an id with no session it
\* answers 404 and deletes nothing.
C20_DeleteSessionFrame == [][C20_Step]_vars

\* C21 (step part): a POST /execute/{rule_id} for a rule that does not exist
\* answers 404 and leaves the table of executions as it was; for a rule that
\* exists it answers 200 with the id of the one row it appended, which has
\* status executing and an empty timeline.  Either way the request starts no
\* worker, puts no event and uses up no stream request.
C21_Step ==
    (answer'.n = answer.n + 1) =>
        LET rid == answer'.rule_id IN
        /\ req' = req /\ requests' = requests
        /\ IF rules[rid].exists
           THEN /\ answer'.status = 200
                /\ Len(executions') = Len(executions) + 1
                /\ SubSeq(executions', 1, Len(executions)) = executions
                /\ answer'.execution_id = Len(executions')
                /\ executions'[Len(executions')] =
                      [rule_id |-> rid, status |-> "executing", timeline |-> <<>>,
                       completed_at |-> 0]
           ELSE /\ answer'.status = 404
                /\ executions' = executions

\* C21 (state part): workers and queued events exist only within a stream
\* request, which is for an execution on record.
C21_State ==
    /\ ~req.started =>
          /\ \A i \in NodeIdx : req.w[i] = IdleWorker
          /\ req.put = <<>>
    /\ req.started => req.eid \in DOMAIN executions

\* C21 (run part): an execution's record is not touched, no worker takes a
\* step and no event is put except within a stream request for it.
C21_Run ==
    /\ \A e \in DOMAIN executions :
          (e \in DOMAIN executions' /\ executions'[e] # executions[e]) =>
              (req'.started /\ req'.eid = e)
    /\ (req'.w # req.w \/ req'.put # req.put) =>
          (requests' = requests - 1 \/ (req.started /\ req'.eid = req.eid))

\* C21: executing a rule id that does not exist answers 404 and creates no
\* execution record; executing an existing rule creates exactly one new
\* record, executing with an empty timeline, and runs no command until the
\* stream is requested.
C21_ExecuteCreatesOneRecord == [](C21_State) /\ [][C21_Step /\ C21_Run]_vars

\* C21 witness: the rule was executed and the stream not yet requested:
\* one record, executing, empty timeline, no worker, stream requests left.
C21_Witness ==
    /\ answer.status = 200 /\ answer.execution_id = 1
    /\ Len(executions) = 1
    /\ executions[1].status = "executing" /\ executions[1].timeline = <<>>
    /\ rules[1].nodes >= 1 /\ rules[1].commands >= 1
    /\ req = IdleRequest /\ requests > 0

\* A stream request is being served: its generator is in the consumer loop
\* or in the drain loop.
Streaming == req.started /\ req.pc \in {"poll", "cancel", "drain"}

\* The run of the current request is finalized: the record is completed with
\* the timeline collected and complete was the last event yielded.
Finalized ==
    /\ req.started /\ req.pc = "done"
    /\ executions[req.eid].status = "completed"
    /\ executions[req.eid].timeline = req.timeline
    /\ req.yielded[Len(req.yielded)] = CompleteEvent

\* A command of the run never returns.
SomeCallHangs == \E i \in NodeIdx : req.w[i].pc = "hung"

\* C22: if every connect, command and analyzer call returns or raises, the
\* streamed run eventually leaves the consumer loop and the drain loop for
\* good, and a run that has left them has finalized the execution record
\* and yielded complete (it has not ended in an exception), in both modes
\* and for every plan, a plan without nodes included.
C22_RunTerminates ==
    /\ []((req.started /\ ~Streaming) => Finalized)
    /\ <>[](~Streaming \/ SomeCallHangs)

\* C22 witness: a parallel run over two nodes, one of whose tasks died in
\* the known-node lookup while the other ran a command, is finalized.
C22_Witness ==
    /\ Finalized /\ ~SomeCallHangs /\ req.mode = "parallel" /\ req.n = 2
    /\ \E i, j \in Nodes :
          /\ req.w[i].pc = "crashed"
          /\ req.w[j].pc = "done" /\ HasResult(req.yielded, j, 1)

\* a is an initial part of b.
IsPrefix(a, b) == Len(a) <= Len(b) /\ SubSeq(b, 1, Len(a)) = a

\* Where in the handling of one command (or, for command 0, of the
\* connection) the worker generates an event of this kind.
Rank(ev) ==
    CASE Kind(ev) \in {"connecting", "executing"} -> 1
      [] Kind(ev) \in {"connected", "output_received"} -> 2
      [] Kind(ev) = "analyzing" -> 3
      [] Kind(ev) \in {"condition_met", "condition_not_met"} -> 4
      [] Kind(ev) = "incident" -> 5
      [] OTHER -> 6

\* seq is in the order in which one worker generates events: command after
\* command and, within a command, step after step.
GenerationOrdered(seq) ==
    \A a, b \in DOMAIN seq :
        a < b => \/ seq[a].cmd < seq[b].cmd
                 \/ seq[a].cmd = seq[b].cmd /\ Rank(seq[a]) < Rank(seq[b])

\* C23 (order part): in parallel mode the events of each node are put in the
\* order the worker generates them and are yielded in the order they were
\* put, none missing once the stream has ended.
C23_Order ==
    (req.started /\ req.mode = "parallel") =>
        \A i \in Nodes :
            /\ GenerationOrdered(EventsOf(req.put, i))
            /\ IsPrefix(EventsOf(req.yielded, i), EventsOf(req.put, i))
            /\ req.pc = "done" => EventsOf(req.yielded, i) = EventsOf(req.put, i)

\* C23 as stated: ... and the last event of a node whose worker has returned
\* is its error event or the result step of its last command.
C23_TerminalEventLast ==
    /\ C23_Order
    /\ (req.started /\ req.mode = "parallel" /\ req.m >= 1) =>
          \A i \in Nodes :
              req.w[i].pc = "done" =>
                  LET evs == EventsOf(req.put, i)
                      last == evs[Len(evs)]
                  IN  \/ last.type = "error"
                      \/ /\ Kind(last) \in {"condition_met", "condition_not_met"}
                         /\ last.cmd = req.m

\* C23, amended: in parallel mode, for every interleaving, the events of
\* each node appear in the stream in the order its worker generated them; an
\* error event is the node's last event; and a node whose worker returned
\* without an error ends with the result step of its last command, followed
\* by that command's incident event when the condition was met (with
\* connected, when the plan has no command).
C23_NodeOrderKept ==
    /\ C23_Order
    /\ (req.started /\ req.mode = "parallel") =>
          \A i \in Nodes :
              LET evs == EventsOf(req.put, i) IN
              /\ \A k \in DOMAIN evs : evs[k].type = "error" => k = Len(evs)
              /\ req.w[i].pc = "done" =>
                    LET last == evs[Len(evs)] IN
                    \/ last.type = "error"
                    \/ Kind(last) = "condition_not_met" /\ last.cmd = req.m
                    \/ /\ last.type = "incident" /\ last.cmd = req.m
                       /\ Kind(evs[Len(evs) - 1]) = "condition_met"
                       /\ evs[Len(evs) - 1].cmd = req.m
                    \/ req.m = 0 /\ Kind(last) = "connected"

\* C23 witness: a finished parallel run over two nodes whose events are
\* interleaved in the stream (node 1, node 2, node 1), one node ending with
\* the incident of its last command and the other with an error event.
C23_Witness ==
    /\ req.started /\ req.mode = "parallel" /\ req.pc = "done" /\ req.n = 2
    /\ \E a, b, c \in DOMAIN req.yielded :
          /\ a < b /\ b < c
          /\ req.yielded[a].src = 1 /\ req.yielded[b].src = 2 /\ req.yielded[c].src = 1
    /\ \E i, j \in Nodes :
          LET ei == EventsOf(req.yielded, i)
              ej == EventsOf(req.yielded, j)
          IN  /\ ei # <<>> /\ ei[Len(ei)].type = "incident"
              /\ ej # <<>> /\ ej[Len(ej)].type = "error"

\* C24 (state part): a node that has an error event has exactly one, as the
\* last of its events; its worker has returned with the connection closed;
\* it made one connection attempt; and it started no command after the one
\* (if any) during which it failed.
C24_State ==
    req.started =>
        \A i \in Nodes :
            LET evs == EventsOf(req.put, i) IN
            ErrorsOf(req.put, i) # <<>> =>
                /\ Len(ErrorsOf(req.put, i)) = 1
                /\ evs[Len(evs)].type = "error"
                /\ req.w[i].pc = "done" /\ ~req.w[i].conn
                /\ Len(Connecting(evs)) = 1
                /\ \A k \in DOMAIN evs : evs[k].cmd <= evs[Len(evs)].cmd
                /\ Executing(req.put, i) = evs[Len(evs)].cmd

\* C24 (step part): within a run, once a node has its error event its
\* worker takes no further step and puts no further event.
C24_Step ==
    \A i \in Nodes :
        (ErrorsOf(req.put, i) # <<>> /\ requests' = requests) =>
            /\ req'.w[i] = req.w[i]
            /\ EventsOf(req'.put, i) = EventsOf(req.put, i)

\* C24: a node's error event is terminal for that node: after it the worker
\* emits no further event for the node, runs none of the node's remaining
\* commands in that run and makes no second connection attempt.
C24_ErrorIsTerminal == [](C24_State) /\ [][C24_Step]_vars

\* C24 witness: a finished run of a plan with two commands in which a node
\* failed during its first command: its error event is there and the second
\* command was never started.
C24_Witness ==
    /\ req.started /\ req.pc = "done" /\ req.m = 2
    /\ \E i \in Nodes :
          /\ req.w[i].cause = "run" /\ req.w[i].cmd = 1
          /\ Len(ErrorsOf(req.yielded, i)) = 1
          /\ Executing(req.yielded, i) = 1

\* C25: a node whose known-node lookup raised ends with exactly one error
\* event, its task does not end with an unhandled exception, and in
\* sequential mode the nodes listed after it are processed before the run
\* is finalized.
C25_LookupFailureHandled ==
    req.started =>
        \A i \in Nodes :
            req.w[i].cause = "lookup" =>
                /\ req.w[i].pc = "done"
                /\ req.runner # "crashed"
                /\ Len(ErrorsOf(req.put, i)) = 1
                /\ (req.mode = "sequential" /\ req.pc = "done") =>
                      \A j \in Nodes : j > i => req.w[j].pc # "pending"

\* The connected step events of seq: one is put each time a session opens.
Connected(seq) == SelectSeq(seq, LAMBDA ev : Kind(ev) = "connected")

\* C26 (state part): a worker has a session open only inside its "async
\* with" block; it runs and analyzes commands only on the session it opened
\* itself; it opens at most one session in a run; it has none when it has
\* returned or died; and when complete has been yielded no worker of the
\* run has a session open.
C26_State ==
    req.started =>
        /\ \A i \in NodeIdx :
              /\ req.w[i].conn => req.w[i].pc \in {"running", "analyzing", "closing", "hung"}
              /\ req.w[i].pc \in {"running", "analyzing", "hung"} => req.w[i].conn
              /\ Len(Connected(EventsOf(req.put, i))) <= 1
              /\ req.w[i].conn => Len(Connected(EventsOf(req.put, i))) = 1
              /\ req.w[i].pc \in {"none", "pending", "connecting", "done", "crashed"} => ~req.w[i].conn
        /\ Completes(req.yielded) # <<>> => \A i \in NodeIdx : ~req.w[i].conn

\* C26 (step part): a step of one worker leaves the sessions of the other
\* workers as they are, and a worker that leaves process_node leaves it
\* without a session.
C26_Step ==
    \A i \in Nodes :
        (requests' = requests /\ req'.w[i] # req.w[i] /\ req.w[i].pc # "pending") =>
            /\ \A j \in Nodes \ {i} : req'.w[j].conn = req.w[j].conn
            /\ req'.w[i].pc \in {"done", "crashed"} => ~req'.w[i].conn

\* C26: at every point of a streamed run a remote session is used only by
\* the worker that opened it, a worker holds at most one, the session is
\* closed on every exit of the worker, and none is open when complete is
\* emitted.
C26_SessionsOwnedAndClosed == [](C26_State) /\ [][C26_Step]_vars

\* C26 witness: a finished parallel run in which both workers had opened a
\* session, one left it by an exception during a command and the other
\* after its last command; both sessions are closed.
C26_Witness ==
    /\ req.started /\ req.pc = "done" /\ req.mode = "parallel" /\ req.n = 2
    /\ Completes(req.yielded) # <<>>
    /\ \E i, j \in Nodes :
          /\ req.w[i].cause = "run" /\ NodeSucceeded(req, j)
          /\ Len(Connected(EventsOf(req.put, i))) = 1
          /\ Len(Connected(EventsOf(req.put, j))) = 1
          /\ ~req.w[i].conn /\ ~req.w[j].conn

\* C27: every error event put by a worker names the node that failed, in
\* its node field or in its message.
C27_ErrorNamesNode ==
    req.started =>
        \A k \in DOMAIN req.put :
            req.put[k].type = "error" =>
                \/ req.put[k].node = req.put[k].src
                \/ req.put[k].message.node = req.put[k].src

\* The events that a step puts.
NewEvents == SubSeq(req'.put, Len(req.put) + 1, Len(req'.put))

\* C28 (state part): a worker whose last command returned with a non-zero
\* exit status is in the loop over the commands with its session open and
\* no exception in flight, and its node has no error event.
C28_State ==
    req.started =>
        \A i \in Nodes :
            req.w[i].exit # 0 =>
                /\ req.w[i].pc \in {"analyzing", "running"}
                /\ req.w[i].conn /\ ~req.w[i].exc /\ req.w[i].cause = "none"
                /\ ErrorsOf(req.put, i) = <<>>

\* C28 (step part): the step in which a command returns with a non-zero
\* exit status puts output_received (status success) and analyzing for that
\* command and nothing else; and the step that takes the analysis of such a
\* command starts the node's next command, or leaves the loop without an
\* exception after the last one, unless the analyzer's answer itself makes
\* the worker fail.
C28_Step ==
    \A i \in Nodes :
        LET c == req.w[i].cmd IN
        /\ (req.w[i].pc = "running" /\ req'.w[i].pc = "analyzing" /\ req'.w[i].exit # 0) =>
              /\ NewEvents = <<StepEvent("output_received", "success", i, c),
                               StepEvent("analyzing", "none", i, c)>>
              /\ req'.w[i].cmd = c
        /\ (req.w[i].pc = "analyzing" /\ req.w[i].exit # 0 /\ req'.w[i] # req.w[i]
                /\ requests' = requests) =>
              /\ \A k \in DOMAIN NewEvents :
                    NewEvents[k].type = "error" => req'.w[i].cause = "analysis"
              /\ req'.w[i].cause \in {"none", "analysis"}
              /\ req'.w[i].cause = "none" =>
                    IF c < req.m
                    THEN /\ req'.w[i].pc = "running" /\ req'.w[i].cmd = c + 1
                         /\ NewEvents[Len(NewEvents)] = StepEvent("executing", "none", i, c + 1)
                    ELSE req'.w[i].pc = "closing" /\ ~req'.w[i].exc

\* C28: in the streaming path a command that finishes with a non-zero exit
\* code is not treated as a transport failure: the worker emits
\* output_received and analyzing for it, emits no error event because of it
\* and goes on to the node's next command.
C28_NonZeroExitIsNoFailure == [](C28_State) /\ [][C28_Step]_vars

\* C28 witness: the first of two commands returned with a non-zero exit
\* status; its output was analyzed and the worker is running the second
\* command, with no error event for the node.
C28_Witness ==
    /\ req.started /\ req.m = 2
    /\ \E i \in Nodes :
          /\ req.w[i].exit # 0 /\ req.w[i].pc = "running" /\ req.w[i].cmd = 2
          /\ HasStep(req.put, i, "output_received", 1)
          /\ HasStep(req.put, i, "analyzing", 1)
          /\ HasResult(req.put, i, 1)
          /\ HasStep(req.put, i, "executing", 2)
          /\ ErrorsOf(req.put, i) = <<>>

\* C29: analyze_output_with_llm returns, for every outcome of the analyzer
\* call, an analysis record with the fields condition_met, summary and
\* severity; when the call raised or its answer was not a JSON object the
\* record has condition_met false and severity info.
C29_AnalyzerAlwaysReturnsRecord ==
    \A k \in DOMAIN analyses :
        LET reply == analyses[k].reply
            result == analyses[k].result
        IN  /\ result.isdict
            /\ result.condition_met \in BOOLEAN
            /\ result.severity \in IncidentSeverity
            /\ reply.kind \in {"raise", "text", "nonobject"} =>
                  (~result.condition_met /\ result.severity = "info")

\* What the database holds about incidents of execution eid once the run is
\* over.  No row of the incident table is ever written; timeline_json is the
\* only column an incident event of the run can end up in.
IncidentRecords(eid) ==
    {[rule_id |-> executions[eid].rule_id, node |-> executions[eid].timeline[k].node] :
        k \in {j \in DOMAIN executions[eid].timeline :
                  executions[eid].timeline[j].type = "incident"}}

\* C30: once the run is finalized, every incident event the consumer loop
\* observed has an incident record for its rule and node in what was handed
\* to persistence.
C30_IncidentsPersisted ==
    Finalized =>
        \A k \in DOMAIN req.yielded :
            req.yielded[k].type = "incident" =>
                [rule_id |-> executions[req.eid].rule_id, node |-> req.yielded[k].node]
                    \in IncidentRecords(req.eid)

\* The caller has received the complete event of the current request.
CompleteReceived ==
    /\ req.started
    /\ \E k \in DOMAIN req.yielded : req.yielded[k] = CompleteEvent

\* C31 (state part): while the caller holds the complete event of a run, the
\* execution record is committed with a status other than executing, with
\* completed_at set and the timeline the generator collected, and the
\* rule's last_executed_at is the time of that commit.
C31_State ==
    CompleteReceived =>
        LET execution == executions[req.eid] IN
        /\ execution.status # "executing"
        /\ execution.completed_at # 0
        /\ execution.timeline = req.timeline
        /\ rules[execution.rule_id].last_executed_at = execution.completed_at

\* C31 (step part): the step that yields complete is the step that commits
\* the record, and complete is not yielded by any step that leaves the
\* record in status executing.
C31_Step ==
    (CompleteReceived' /\ ~CompleteReceived) =>
        /\ executions'[req'.eid].status = "completed"
        /\ executions'[req'.eid].completed_at = now'
        /\ executions'[req'.eid].timeline = req'.timeline
        /\ rules'[executions'[req'.eid].rule_id].last_executed_at = now'
        /\ now' > now

\* C31: the complete event is sent only for a record already committed as
\* completed, with completed_at, the timeline and the rule's
\* last_executed_at written.
C31_CompleteFollowsCommit == [](C31_State) /\ [][C31_Step]_vars

\* A run that reached a node has been finalized: the caller holds complete,
\* the record was executing before and is completed with a timeline now.
C31_Witness ==
    /\ CompleteReceived
    /\ req.n > 0
    /\ executions[req.eid].status = "completed"
    /\ executions[req.eid].timeline # <<>>

\* The credentials of the known nodes, in clear.
Plaintexts ==
    {decrypt_credential(node.credential_encrypted) :
        node \in {n \in KnownNodeTable : n.credential_encrypted # NoToken}}

\* A list of node dicts holds the credential of a known node in clear.
Leaks(nodes) == \E k \in DOMAIN nodes : nodes[k].credential \in Plaintexts

\* C32: no stored rule (nodes_json) and no response of the chat API holds
\* the credential of a known node in clear.
C32_CredentialStaysWithWorker ==
    /\ \A r \in DOMAIN chatApi.nodes_json : ~Leaks(json_loads(chatApi.nodes_json[r]))
    /\ \A k \in DOMAIN chatApi.body : ~Leaks(chatApi.body[k])

\* The statuses of the results stored for the execution.
ResultStatuses == {run.results[j].status : j \in DOMAIN run.results}

\* C33: an execution that went through the commands ends success exactly
\* when every result succeeded, failed exactly when no result succeeded and
\* partial exactly when some succeeded and some failed; an execution that
\* returned early (runbook missing, no servers, no commands) ends failed
\* with no result.
C33_StatusSummarisesResults ==
    run.pc = "done" =>
        IF run.commands = <<>>
        THEN run.status = "failed" /\ run.results = <<>>
        ELSE /\ run.status = "success" <=> ResultStatuses \subseteq {"success"}
             /\ run.status = "failed" <=> "success" \notin ResultStatuses
             /\ run.status = "partial" <=> ResultStatuses = {"success", "failed"}

TerminalStatuses == {"success", "failed", "partial"}

\* C34 (state part): completed_at is set exactly when the status of the
\* execution is success, failed or partial.
C34_State ==
    run.status # "none" => (run.completed_at # 0 <=> run.status \in TerminalStatuses)

\* C34 (step part): a step on the row of one execution leaves its status
\* alone or moves it from pending to running or from running to a terminal
\* status; a terminal status and its completed_at never change; a new row
\* starts pending.
C34_Step ==
    /\ run'.n = run.n =>
          /\ \/ run'.status = run.status
             \/ (run.status = "pending" /\ run'.status = "running")
             \/ (run.status = "running" /\ run'.status \in TerminalStatuses)
          /\ run.status \in TerminalStatuses => run'.completed_at = run.completed_at
    /\ run'.n # run.n => (run'.status = "pending" /\ run'.completed_at = 0)

\* C34: the status of a runbook execution only moves pending, running,
\* terminal; it is frozen once terminal, and completed_at is set exactly
\* when it is terminal.
C34_StatusOnlyAdvances == [](C34_State) /\ [][C34_Step]_vars

\* An execution went from pending through running to partial.
C34_Witness ==
    /\ run.pc = "done"
    /\ run.status = "partial"
    /\ run.completed_at # 0

\* C35: a schedule_runbook call that raises ValueError leaves the jobs of
\* the store as they were.
C35_FailedScheduleKeepsJobs ==
    [][(lastCall'.n # lastCall.n /\ lastCall'.op = "schedule" /\ lastCall'.raised)
          => jobs' = jobs]_vars

\* C36: a runbook's is_scheduled flag is true exactly when the scheduler
\* holds a job for that runbook.
C36_FlagMatchesJob ==
    \A id \in RunbookIds :
        runbooks.rows[id].exists =>
            (runbooks.rows[id].is_scheduled <=> get_job(jobs, JobId(id)) # {})

\* The groups of s between its dots.
RECURSIVE Groups(_)
Groups(s) ==
    IF \A i \in DOMAIN s : s[i] # "." THEN <<s>>
    ELSE LET i == CHOOSE i \in DOMAIN s : s[i] = "." /\ \A j \in 1..(i - 1) : s[j] # "."
         IN  <<SubSeq(s, 1, i - 1)>> \o Groups(SubSeq(s, i + 1, Len(s)))

\* s is a dotted address: four groups of one to three digits.
IsAddress(s) ==
    /\ Len(Groups(s)) = 4
    /\ \A k \in 1..4 : LET group == Groups(s)[k] IN
          Len(group) \in 1..3 /\ \A c \in DOMAIN group : group[c] \in Digit

\* The dotted addresses that s holds in parentheses.
InParentheses(s) ==
    {SubSeq(s, i + 1, j - 1) : <<i, j>> \in
        {p \in (DOMAIN s) \X (DOMAIN s) :
            p[1] < p[2] /\ s[p[1]] = "(" /\ s[p[2]] = ")" /\ IsAddress(SubSeq(s, p[1] + 1, p[2] - 1))}}

\* C37: resolve_node returns (True, the stored configuration) for a key of
\* known_nodes, (True, a default configuration whose hostname is the
\* address) for a name that is a dotted address or holds one in
\* parentheses, (False, None) for every other name, and leaves known_nodes
\* as it was.
C37_ResolveNodeClassifiesNames ==
    \A k \in DOMAIN resolved :
        LET call == resolved[k]
            config == call.result.config
            default == config.username = "ubuntu" /\ config.port = 22
        IN  /\ call.after = call.known_nodes
            /\ IF call.node_name \in DOMAIN call.known_nodes
               THEN call.result = [resolved |-> TRUE, config |-> call.known_nodes[call.node_name]]
               ELSE IF IsAddress(call.node_name)
               THEN call.result.resolved /\ config.hostname = call.node_name /\ default
               ELSE IF InParentheses(call.node_name) # {}
               THEN /\ call.result.resolved
                    /\ config.hostname \in InParentheses(call.node_name)
                    /\ default
               ELSE call.result = [resolved |-> FALSE, config |-> NoConfig]

\* C38: in the report of a finished execution the row of a node and a
\* command says NOK exactly when that node's run of that command met the
\* condition.
C38_RowShowsOwnDeviation ==
    (report.asked /\ report.pos = report.n * report.m) =>
        \A row \in report.rows :
            row.Deviationstatus = "NOK" <=> <<row.Nodename, row.Command>> \in report.met

====
